---- MODULE Spec2Model ----
(***************************************************************************)
(* K-Base: a branching conversation tree.                                  *)
(*                                                                         *)
(* The module holds several specifications over one set of variables:      *)
(*   SpecStore   the frontend chat store (stores/chatStore.ts)             *)
(*   SpecSelect  branch switching: App.handleSelectBranch against the      *)
(*               backend's select operation                                *)
(*   SpecChat    ChatService.send_message, the streaming chat generator    *)
(*   SpecCtx     ContextBuilder.build_context on bounded inputs            *)
(*   SpecMem     MemoryService.index_node / search                         *)
(*   SpecSide    the side chat panel of App against the side chat threads  *)
(*   SpecStrm    ApiClient.sendMessageStream reading the event stream;     *)
(*               SpecStrmEnd adds the other ways a response can end        *)
(*   SpecSvc     collapse_branch and index_node calls, step by step        *)
(*   SpecPath    getNodePath on any store content                          *)
(*   SpecUi      the chat store with its UI state                          *)
(*   SpecSess    App's displayed thread across session changes             *)
(*   SpecHl      ChatMessage.renderTextWithHighlights on bounded inputs    *)
(* Each specification drives its own group of variables and leaves the     *)
(* other groups at their idle values.                                      *)
(***************************************************************************)
EXTENDS Integers, Sequences, FiniteSets, TLC

VARIABLES
    \* ---- chat store (chatStore.ts) ----
    nodes,          \* ChatState.nodes: Map<string, Node>, as a function id -> Node
    nextId,         \* the next id the backend hands out (ids are UUIDs, never reused)
    \* ---- backend tables ----
    db,             \* the nodes table, as a function id -> row
    chunks,         \* the memory_chunks table, as a function id -> row
    \* ---- memory service calls ----
    memLast,        \* the last MemoryService call and what it returned
    \* ---- one build_context call ----
    ctxPc,          \* where the call is
    ctxArgs,        \* its arguments
    ctxOut,         \* messages, total_tokens and retrieved_memories so far
    \* ---- chat requests ----
    chat,           \* per request: where send_message is and what it holds
    \* ---- side chat panel (App.tsx) ----
    sidePanel,      \* the side chat state of App: panel node, selection, messages, streaming
    sideOpen,       \* per selection: a handleOpenSideChat awaiting or holding getSideChats
    sideReq,        \* per side chat stream: where handleSendSideChat's request stands
    \* ---- one chat stream read by ApiClient.sendMessageStream ----
    wire,           \* the response bytes written by the server and not yet read
    srv,            \* the server side of the stream: phase and tokens produced
    reader,         \* the client side: buffer, callbacks made, streaming text
    \* ---- collapse_branch and index_node calls in flight ----
    calls,          \* per call: the operation, where it stands and what it holds
    \* ---- getNodePath calls on the chat store ----
    pathOut,        \* the last getNodePath call and what became of it
    \* ---- chat store UI state (chatStore.ts) ----
    uiCurrentNodeId,    \* ChatState.currentNodeId, NoId for null
    expandedNodes,      \* ChatState.expandedNodes: Set<string>
    selectedBranches,   \* ChatState.selectedBranches: Map parentId -> childId
    \* ---- App's session and displayed thread (App.tsx) ----
    currentSessionId,   \* the session of the URL, "none" for null
    appNodes,           \* App's nodes state: the displayed thread
    sessLoads,          \* the sessions with a loadSession call in flight
    sessStream,         \* the sendMessageStream call of handleSendMessage
    sessStored,         \* backend: per session, the number of nodes on its thread
    \* ---- one renderTextWithHighlights call (ChatMessage.tsx) ----
    hlIn,           \* the text and the highlight ranges of the last call
    hlOut,          \* the matches it kept and the segments it emitted
    \* ---- branch switching (App.tsx) ----
    selPc,          \* per handleSelectBranch invocation: where it stands
    selArg,         \* per invocation: the nodeId it was called with
    viewNodes,      \* App's nodes state: the displayed thread (node ids)
    lastSel,        \* per parent: the child of the select the backend served last
    conc,           \* per invocation: its request was in flight together with the other's
    selServed       \* per invocation: the backend has served its request

storeVars == <<nodes, nextId>>

backVars == <<db, chunks>>

memVars == <<memLast>>

ctxVars == <<ctxPc, ctxArgs, ctxOut>>

chatVars == <<chat>>

sideVars == <<sidePanel, sideOpen, sideReq>>

strmVars == <<wire, srv, reader>>

svcVars == <<calls>>

pathVars == <<pathOut>>

uiVars == <<uiCurrentNodeId, expandedNodes, selectedBranches>>

sessVars == <<currentSessionId, appNodes, sessLoads, sessStream, sessStored>>

hlVars == <<hlIn, hlOut>>

selVars == <<selPc, selArg, viewNodes, lastSel, conc, selServed>>

vars == <<hlIn, hlOut,
          currentSessionId, appNodes, sessLoads, sessStream, sessStored,
          uiCurrentNodeId, expandedNodes, selectedBranches,
          pathOut,
          calls,
          wire, srv, reader,
          sidePanel, sideOpen, sideReq,
          nodes, nextId, db, chunks, memLast, ctxPc, ctxArgs, ctxOut, chat, selPc, selArg, viewNodes, lastSel, conc,
          selServed>>

\* What each part leaves alone.
storeOthers == <<backVars, memVars, ctxVars, chatVars, selVars, sideVars, strmVars, svcVars, pathVars, uiVars, sessVars, hlVars>>

selOthers == <<storeVars, chunks, memVars, ctxVars, chatVars, sideVars, strmVars, svcVars, pathVars, uiVars, sessVars, hlVars>>

memOthers == <<storeVars, ctxVars, chatVars, selVars, sideVars, strmVars, svcVars, pathVars, uiVars, sessVars, hlVars>>

ctxOthers == <<storeVars, memVars, chatVars, selVars, sideVars, strmVars, svcVars, pathVars, uiVars, sessVars, hlVars>>

chatOthers == <<storeVars, memVars, ctxVars, selVars, sideVars, strmVars, svcVars, pathVars, uiVars, sessVars, hlVars>>

hlOthers == <<storeVars, memVars, ctxVars, chatVars, sideVars, strmVars, svcVars, pathVars, uiVars, sessVars, selVars>>

sessOthers == <<storeVars, memVars, ctxVars, chatVars, sideVars, strmVars, svcVars, pathVars, uiVars, selVars, hlVars>>

uiOthers == <<storeVars, memVars, ctxVars, chatVars, sideVars, strmVars, svcVars, pathVars, selVars, sessVars, hlVars>>

pathOthers == <<storeVars, memVars, ctxVars, chatVars, sideVars, strmVars, svcVars, selVars, uiVars, sessVars, hlVars>>

svcOthers == <<storeVars, memVars, ctxVars, chatVars, sideVars, strmVars, selVars, pathVars, uiVars, sessVars, hlVars>>

strmOthers == <<storeVars, memVars, ctxVars, chatVars, sideVars, selVars, svcVars, pathVars, uiVars, sessVars, hlVars>>

sideOthers == <<storeVars, memVars, ctxVars, chatVars, selVars, strmVars, svcVars, pathVars, uiVars, sessVars, hlVars>>

(***************************************************************************)
(* Values shared by all parts.                                             *)
(***************************************************************************)

\* A missing id (parentId undefined / NULL parent_id).
NoId == 0

\* A missing text (collapsedSummary undefined / NULL collapsed_summary).
NoText == <<"null">>

NodeStatuses == {"active", "collapsed", "abandoned", "merged"}

MainTypes == {"user_message", "assistant_message"}

\* The larger of two integers.
Max2(a, b) == IF a >= b THEN a ELSE b

\* The concurrent invocations of a handler.
Clients == {1, 2}

(***************************************************************************)
(* Idle values: what a specification leaves the other parts at.            *)
(***************************************************************************)

StoreIdle ==
    /\ nodes = <<>>
    /\ nextId = 1

BackIdle ==
    /\ db = <<>>
    /\ chunks = <<>>

MemIdle ==
    /\ memLast = [op |-> "none"]

CtxIdle ==
    /\ ctxPc = "idle"
    /\ ctxArgs = <<>>
    /\ ctxOut = <<>>

\* The chat requests.
Requests == {1, 2}

\* A request that has not been sent.
IdleRequest ==
    [pc |-> "idle", parentNodeId |-> NoId, content |-> <<>>, includeRag |-> FALSE,
     userNode |-> NoId, messages |-> <<>>, memoriesUsed |-> <<>>,
     fullResponse |-> <<>>, assistantNode |-> NoId, events |-> <<>>, ended |-> "none"]

ChatIdle ==
    /\ chat = [r \in Requests |-> IdleRequest]

\* The text selections side chats are opened on, and no selection.
Selections == {"ownership model", "borrow checker"}

NoSelection == "none"

\* The side chat streams.
SideStreams == {1, 2}

\* App's side chat state before any panel is opened.
ClosedPanel ==
    [sideChatPanelNodeId |-> NoId, sideChatSelectedText |-> NoSelection,
     sideChatMessages |-> <<>>, sideChatStreamingContent |-> <<>>,
     isSideChatStreaming |-> FALSE, sideChatCount |-> 0]

SideIdle ==
    /\ sidePanel = ClosedPanel
    /\ sideOpen = [s \in Selections |-> [pc |-> "idle", messages |-> <<>>]]
    /\ sideReq = [k \in SideStreams |->
                     [pc |-> "idle", parentNodeId |-> NoId,
                      selectedText |-> NoSelection, tokens |-> 0]]

\* The stream before the request: nothing written, nothing read;
\* handleSendMessage has set isLoading.
StrmIdle ==
    /\ wire = <<>>
    /\ srv = [pc |-> "start", produced |-> <<>>]
    /\ reader = [pc |-> "reading", buffer |-> <<>>, onTokenCalls |-> <<>>,
                 streamingContent |-> <<>>, userNodes |-> 0, completes |-> 0,
                 carried |-> FALSE, isLoading |-> TRUE, isStreaming |-> FALSE]

\* The service calls that may be in flight together.
ServiceCalls == {1, 2}

\* A call that has not been made.
NoCall ==
    [op |-> "none", pc |-> "idle", nodeId |-> NoId, node |-> NoId,
     statusBefore |-> "none", summary |-> NoText, chunkType |-> "none",
     embedding |-> 0, result |-> NoId]

SvcIdle ==
    /\ calls = [k \in ServiceCalls |-> NoCall]

\* No getNodePath call has been made.
PathIdle ==
    /\ pathOut = [nodeId |-> NoId, ends |-> TRUE, path |-> <<>>]

\* The store's UI state as constructed.
UiIdle ==
    /\ uiCurrentNodeId = NoId
    /\ expandedNodes = {}
    /\ selectedBranches = <<>>

\* App before any session is chosen.
SessIdle ==
    /\ currentSessionId = "none"
    /\ appNodes = <<>>
    /\ sessLoads = {}
    /\ sessStream = [pc |-> "idle", sessionId |-> "none"]
    /\ sessStored = [s \in {"s1", "s2"} |-> IF s = "s1" THEN 1 ELSE 0]

\* No text has been rendered.
HlIdle ==
    /\ hlIn = [text |-> <<>>, ranges |-> <<>>]
    /\ hlOut = [kept |-> <<>>, segments |-> <<>>]

SelIdle ==
    /\ selPc = [c \in Clients |-> "idle"]
    /\ selArg = [c \in Clients |-> NoId]
    /\ viewNodes = <<>>
    /\ lastSel = <<>>
    /\ conc = [c \in Clients |-> FALSE]
    /\ selServed = [c \in Clients |-> FALSE]

(***************************************************************************)
(* PART 1.  The chat store, frontend/src/stores/chatStore.ts               *)
(***************************************************************************)

\* Number of node ids the store model hands out.
MaxStoreNodes == 3

StoreIds == 1..MaxStoreNodes

StoreSessions == {"s1", "s2"}

\* The summary text passed to collapseNode.
StoreSummary == <<"sum">>

\* Status updates a caller passes to updateNode; NodeUpdate carries an optional
\* status, and these are the transitions of the branch state machine that have
\* no store action of their own: expand, abandon, merge.
StoreStatusUpdates == {"active", "abandoned", "merged"}

\* The words of the stored messages, one per id.
StoreWords == <<"c1", "c2", "c3", "c4", "c5", "c6">>

\* The status changes the branch state machine allows: collapse, expand, abandon,
\* and merge from any status; merged is terminal.
AllowedTransition(a, b) ==
    \/ a = b
    \/ a = "active" /\ b = "collapsed"
    \/ a = "collapsed" /\ b = "active"
    \/ a = "active" /\ b = "abandoned"
    \/ a # "merged" /\ b = "merged"

\* The type of a message added under parentId: a conversation alternates, a user
\* message at the root and under an assistant message, a reply under a user message.
StoreChildType(ns, parentId) ==
    IF parentId # NoId /\ ns[parentId].nodeType = "user_message"
    THEN "assistant_message" ELSE "user_message"

\* The node a caller adds for a message the backend has just created.
NewStoreNode(id, sessionId, parentId, nodeType) ==
    [id |-> id, sessionId |-> sessionId, parentId |-> parentId,
     content |-> <<StoreWords[id]>>, nodeType |-> nodeType, status |-> "active",
     collapsedSummary |-> NoText, siblingIndex |-> 0, isSelectedPath |-> TRUE]

StoreInit ==
    /\ nodes = <<>>
    /\ nextId = 1

\* Map.set(key, value) on a function.
MapSet(m, k, v) == [x \in DOMAIN m \cup {k} |-> IF x = k THEN v ELSE m[x]]

\* Map.delete(key) on a function.
MapDelete(m, k) == [x \in DOMAIN m \ {k} |-> m[x]]

\* addNode(node): nodes.set(node.id, node).  The node is a message the backend
\* created: a fresh id, a parent that is stored (or none), the parent's session.
addNode(sessionId, parentId) ==
    /\ nextId <= MaxStoreNodes
    /\ parentId = NoId \/ parentId \in DOMAIN nodes
    /\ parentId # NoId => sessionId = nodes[parentId].sessionId
    /\ nodes' = MapSet(nodes, nextId,
                       NewStoreNode(nextId, sessionId, parentId,
                                    StoreChildType(nodes, parentId)))
    /\ nextId' = nextId + 1
    /\ UNCHANGED storeOthers

\* An update that replaces the node's optional fields instead of merging.
updateNodeStatusReset(nodeId, status) ==
    /\ nodeId \in DOMAIN nodes => AllowedTransition(nodes[nodeId].status, status)
    /\ nodes' = IF nodeId \in DOMAIN nodes
                THEN MapSet(nodes, nodeId, [nodes[nodeId] EXCEPT !.status = status,
                                                                 !.collapsedSummary = NoText])
                ELSE nodes
    /\ UNCHANGED <<nextId, storeOthers>>

\* updateNode(nodeId, {status}): a no-op when the node is not stored.  Callers
\* ask only for status changes the state machine allows.
updateNodeStatus(nodeId, status) ==
    /\ nodeId \in DOMAIN nodes => AllowedTransition(nodes[nodeId].status, status)
    /\ nodes' = IF nodeId \in DOMAIN nodes
                THEN MapSet(nodes, nodeId, [nodes[nodeId] EXCEPT !.status = status])
                ELSE nodes
    /\ UNCHANGED <<nextId, storeOthers>>

\* deleteNode(nodeId): nodes.delete(nodeId), and nothing else.
deleteNode(nodeId) ==
    /\ nodes' = MapDelete(nodes, nodeId)
    /\ UNCHANGED <<nextId, storeOthers>>

\* collapseNode(nodeId, summary): status and summary are set whatever the
\* node's status was; a no-op when the node is not stored.
collapseNode(nodeId, summary) ==
    /\ nodes' = IF nodeId \in DOMAIN nodes
                THEN MapSet(nodes, nodeId,
                            [nodes[nodeId] EXCEPT !.status = "collapsed",
                                                  !.collapsedSummary = summary])
                ELSE nodes
    /\ UNCHANGED <<nextId, storeOthers>>

\* getNodePath's loop from currentId with the path built so far.  The loop has
\* no depth guard: coming back to a node already walked, it never ends.
RECURSIVE getNodePathLoop(_, _, _, _)
getNodePathLoop(ns, currentId, path, walked) ==
    IF currentId = NoId THEN [ends |-> TRUE, path |-> path]
    ELSE IF currentId \notin DOMAIN ns THEN [ends |-> TRUE, path |-> path]
    ELSE IF currentId \in walked THEN [ends |-> FALSE, path |-> path]
    ELSE getNodePathLoop(ns, ns[currentId].parentId, <<ns[currentId]>> \o path,
                         walked \cup {currentId})

\* getNodePath(nodeId) over the store's nodes.
getNodePath(ns, nodeId) == getNodePathLoop(ns, nodeId, <<>>, {})

StoreNext ==
    \/ \E s \in StoreSessions, p \in StoreIds \cup {NoId} : addNode(s, p)
    \/ \E n \in StoreIds, st \in StoreStatusUpdates : updateNodeStatus(n, st)
    \/ \E n \in StoreIds : deleteNode(n)
    \/ \E n \in StoreIds : collapseNode(n, StoreSummary)

StoreSpecInit == StoreInit /\ BackIdle /\ MemIdle /\ CtxIdle /\ ChatIdle /\ SelIdle /\ SideIdle /\ StrmIdle /\ SvcIdle /\ PathIdle /\ UiIdle /\ SessIdle /\ HlIdle

SpecStore == StoreSpecInit /\ [][StoreNext]_vars

(***************************************************************************)
(* Claims on the chat store                                                *)
(***************************************************************************)

\* Whether path is a root-to-n chain: it starts at a node without parent, ends at
\* n, and each element is the parent of the next.
IsRootPath(path, n) ==
    /\ Len(path) >= 1
    /\ path[1].parentId = NoId
    /\ path[Len(path)].id = n
    /\ \A i \in 1..(Len(path) - 1) : path[i + 1].parentId = path[i].id

\* C7: for every stored node n, getNodePath(n) returns a sequence that starts at a
\* root (parentId = null), ends at n, and in which each element is the parent of
\* the next.
C7_PathRootToNode ==
    \A n \in DOMAIN nodes :
        /\ getNodePath(nodes, n).ends
        /\ IsRootPath(getNodePath(nodes, n).path, n)

\* C8: after any sequence of node operations the parentId relation over the stored
\* nodes is a forest: no cycle, and every node with a parentId has that parent
\* stored, in the same session.
C8_Forest ==
    \A n \in DOMAIN nodes :
        /\ getNodePath(nodes, n).ends
        /\ nodes[n].parentId # NoId =>
               /\ nodes[n].parentId \in DOMAIN nodes
               /\ nodes[nodes[n].parentId].sessionId = nodes[n].sessionId

\* C9: every node is created active, and a node's status changes only along
\* active->collapsed, collapsed->active, active->abandoned or any->merged; a
\* merged node's status never changes again.
C9_StatusMachine ==
    [][ /\ \A n \in DOMAIN nodes' \ DOMAIN nodes : nodes'[n].status = "active"
        /\ \A n \in DOMAIN nodes \cap DOMAIN nodes' :
               AllowedTransition(nodes[n].status, nodes'[n].status) ]_vars

(***************************************************************************)
(* PART 2.  The backend's node tree and branch switching                   *)
(*   rows and their columns: the nodes table of the design;                *)
(*   the select operation: the backend route behind POST /nodes/{id}/select*)
(*   (not among the sources; modelled from the TreeStore contract);        *)
(*   the client: App.handleSelectBranch, App.loadFullThread.               *)
(***************************************************************************)

\* Number of nodes of the trees branch switching starts from.
MaxTreeNodes == 3

TreeIds == 1..MaxTreeNodes

\* No generation_config.
NoConfig == [provider |-> "none", model |-> "none"]

\* A row of the nodes table.
DbRow(id, sessionId, parentId, content, nodeType, siblingIndex, isSelectedPath) ==
    [id |-> id, sessionId |-> sessionId, parentId |-> parentId,
     content |-> content, nodeType |-> nodeType, status |-> "active",
     collapsedSummary |-> NoText, siblingIndex |-> siblingIndex,
     isSelectedPath |-> isSelectedPath, generationConfig |-> NoConfig,
     selectedText |-> "none", createdAt |-> id]

\* The ids of the children of parentId.
ChildIds(d, parentId) == {x \in DOMAIN d : d[x].parentId = parentId}

\* The ids of the main-conversation children of parentId.
MainChildIds(d, parentId) ==
    {x \in ChildIds(d, parentId) : d[x].nodeType \in MainTypes}

\* The main-conversation children of parentId with isSelectedPath set.
SelectedMainChildIds(d, parentId) ==
    {x \in MainChildIds(d, parentId) : d[x].isSelectedPath}

\* ORDER BY sibling_index, created_at: whether row a comes before row b.
RowBefore(a, b) ==
    \/ a.siblingIndex < b.siblingIndex
    \/ a.siblingIndex = b.siblingIndex /\ a.createdAt < b.createdAt

\* The ids of set ids in the order of get_node_children.
RECURSIVE OrderRows(_, _)
OrderRows(d, ids) ==
    IF ids = {} THEN <<>>
    ELSE LET first == CHOOSE a \in ids :
                          \A b \in ids \ {a} : RowBefore(d[a], d[b])
         IN  <<first>> \o OrderRows(d, ids \ {first})

\* GET /nodes/{id}/children: the children in order.
getNodeChildren(d, parentId) == OrderRows(d, ChildIds(d, parentId))

\* GET /nodes/{id}/siblings: the main-conversation nodes sharing nodeId's parent,
\* nodeId itself included, in order.
getMainSiblings(d, nodeId) == OrderRows(d, MainChildIds(d, d[nodeId].parentId))

\* A select that gives way to a sibling already selected.
SelectBranchFirstWins(d, nodeId) ==
    IF \E x \in DOMAIN d : /\ x # nodeId
                            /\ d[x].parentId = d[nodeId].parentId
                            /\ d[x].nodeType \in MainTypes
                            /\ d[x].isSelectedPath
    THEN d
    ELSE [x \in DOMAIN d |->
             IF x = nodeId THEN [d[x] EXCEPT !.isSelectedPath = TRUE] ELSE d[x]]

\* A select that sets the flag and clears none.
SelectBranchNoClear(d, nodeId) ==
    [x \in DOMAIN d |->
        IF x = nodeId THEN [d[x] EXCEPT !.isSelectedPath = TRUE] ELSE d[x]]

\* The select operation, in one transaction: the flag is set on nodeId and
\* cleared on every other main-conversation child of the same parent.
SelectBranch(d, nodeId) ==
    [x \in DOMAIN d |->
        IF x = nodeId THEN [d[x] EXCEPT !.isSelectedPath = TRUE]
        ELSE IF d[x].parentId = d[nodeId].parentId /\ d[x].nodeType \in MainTypes
             THEN [d[x] EXCEPT !.isSelectedPath = FALSE]
             ELSE d[x]]

\* Session.rootNodeId: the node without parent, if there is one.
RootNodeId(d) ==
    IF \E x \in DOMAIN d : d[x].parentId = NoId
    THEN CHOOSE x \in DOMAIN d : d[x].parentId = NoId
    ELSE NoId

\* The first element of sequence q that satisfies the flag, or NoId.
FirstSelected(d, q) ==
    IF \E i \in 1..Len(q) : d[q[i]].isSelectedPath
    THEN q[CHOOSE i \in 1..Len(q) :
               /\ d[q[i]].isSelectedPath
               /\ \A j \in 1..(i - 1) : ~d[q[j]].isSelectedPath]
    ELSE NoId

\* loadFullThread's loop: from currentId, follow the selected main child.
RECURSIVE loadFullThreadLoop(_, _, _)
loadFullThreadLoop(d, currentId, thread) ==
    IF currentId = NoId \/ currentId \notin DOMAIN d THEN thread
    ELSE loadFullThreadLoop(
             d,
             FirstSelected(d, SelectSeq(getNodeChildren(d, currentId),
                                        LAMBDA c : d[c].nodeType \in MainTypes)),
             Append(thread, currentId))

loadFullThread(d, rootNodeId) == loadFullThreadLoop(d, rootNodeId, <<>>)

\* The trees branch switching starts from: node 1 is the root, every other node
\* hangs under an earlier one, notes are leaves, a conversation alternates user
\* and assistant messages, sibling indexes count up under each parent, and every
\* parent has at most one selected main-conversation child.
TreeParents(k) ==
    {p \in [1..k -> 0..k] : \A i \in 1..k : IF i = 1 THEN p[i] = NoId
                                             ELSE p[i] \in 1..(i - 1)}

TreeIsNote(k, p) ==
    {nt \in [1..k -> BOOLEAN] :
        /\ k >= 1 => ~nt[1]
        /\ \A i \in 1..k : p[i] # NoId => ~nt[p[i]]}

RECURSIVE TreeDepth(_, _)
TreeDepth(p, i) == IF p[i] = NoId THEN 0 ELSE 1 + TreeDepth(p, p[i])

TreeType(p, nt, i) ==
    IF nt[i] THEN "user_note"
    ELSE IF TreeDepth(p, i) % 2 = 0 THEN "user_message" ELSE "assistant_message"

TreeOf(k, p, nt, sel) ==
    [i \in 1..k |->
        DbRow(i, "s1", p[i], <<"m">>, TreeType(p, nt, i),
              Cardinality({j \in 1..(i - 1) : p[j] = p[i] /\ nt[j] = nt[i]}),
              sel[i])]

AtMostOneSelected(d) ==
    \A x \in DOMAIN d : Cardinality(SelectedMainChildIds(d, x)) <= 1

TreesOfShape(k, p) ==
    {TreeOf(k, p, nt, sel) : nt \in TreeIsNote(k, p), sel \in [1..k -> BOOLEAN]}

TreesOfSize(k) == UNION {TreesOfShape(k, p) : p \in TreeParents(k)}

InitialTrees ==
    {d \in UNION {TreesOfSize(k) : k \in 0..MaxTreeNodes} : AtMostOneSelected(d)}

SelInit ==
    /\ db \in InitialTrees
    /\ chunks = <<>>
    /\ SelIdle

\* The other invocation.
Other(c) == CHOOSE o \in Clients : o # c

\* handleSelectBranch(nodeId) up to its first await: nothing happens without a
\* root node; otherwise POST /nodes/{nodeId}/select is sent.
SelectClick(c, nodeId) ==
    /\ selPc[c] = "idle"
    /\ RootNodeId(db) # NoId
    /\ nodeId \in DOMAIN db
    /\ selPc' = [selPc EXCEPT ![c] = "request"]
    /\ selArg' = [selArg EXCEPT ![c] = nodeId]
    /\ conc' = [o \in Clients |->
                   IF selPc[Other(c)] = "request" THEN TRUE
                   ELSE IF o = c THEN FALSE ELSE conc[o]]
    /\ selServed' = [selServed EXCEPT ![c] = FALSE]
    /\ UNCHANGED <<db, viewNodes, lastSel, selOthers>>

\* The backend serves the request.
SelectServe(c) ==
    /\ selPc[c] = "request"
    /\ db' = SelectBranch(db, selArg[c])
    /\ lastSel' = MapSet(lastSel, db[selArg[c]].parentId, selArg[c])
    /\ selPc' = [selPc EXCEPT ![c] = "loading"]
    /\ selServed' = [selServed EXCEPT ![c] = TRUE]
    /\ UNCHANGED <<selArg, viewNodes, conc, selOthers>>

\* The request fails: the handler's catch logs and returns.
SelectFail(c) ==
    /\ selPc[c] = "request"
    /\ selPc' = [selPc EXCEPT ![c] = "idle"]
    /\ UNCHANGED <<db, selArg, viewNodes, lastSel, conc, selServed, selOthers>>

\* After the select: the thread is reloaded from the root and displayed.
SelectReload(c) ==
    /\ selPc[c] = "loading"
    /\ viewNodes' = loadFullThread(db, RootNodeId(db))
    /\ selPc' = [selPc EXCEPT ![c] = "idle"]
    /\ UNCHANGED <<db, selArg, lastSel, conc, selServed, selOthers>>

SelNext ==
    \/ \E c \in Clients, n \in TreeIds : SelectClick(c, n)
    \/ \E c \in Clients : SelectServe(c)
    \/ \E c \in Clients : SelectFail(c)
    \/ \E c \in Clients : SelectReload(c)

SelSpecInit == SelInit /\ StoreIdle /\ MemIdle /\ CtxIdle /\ ChatIdle /\ SideIdle /\ StrmIdle /\ SvcIdle /\ PathIdle /\ UiIdle /\ SessIdle /\ HlIdle

SpecSelect == SelSpecInit /\ [][SelNext]_vars

\* C1: starting from a tree in which every parent has at most one selected
\* main-conversation child, after any sequence of selects every parent still has
\* at most one main-conversation child with isSelectedPath = true.
C1_AtMostOneSelected == AtMostOneSelected(db)

\* Reached: a select was served on a main-conversation node that has another
\* main-conversation sibling, and that sibling was the selected one before.
C1_Witness ==
    \E c \in Clients :
        /\ selPc[c] = "loading"
        /\ selServed[c]
        /\ db[selArg[c]].nodeType \in MainTypes
        /\ db[selArg[c]].isSelectedPath
        /\ Cardinality(MainChildIds(db, db[selArg[c]].parentId)) >= 2
        /\ db[selArg[c]].parentId # NoId
        /\ lastSel[db[selArg[c]].parentId] = selArg[c]

\* Two invocations whose requests were in flight together, on two different
\* main-conversation children of one parent, both served.
BothServed(c1, c2) ==
    /\ c1 # c2
    /\ selPc[c1] # "request" /\ selPc[c2] # "request"
    /\ selServed[c1] /\ selServed[c2]
    /\ conc[c1] /\ conc[c2]
    /\ selArg[c1] # selArg[c2]
    /\ selArg[c1] \in DOMAIN db /\ selArg[c2] \in DOMAIN db
    /\ db[selArg[c1]].nodeType \in MainTypes
    /\ db[selArg[c2]].nodeType \in MainTypes
    /\ db[selArg[c1]].parentId = db[selArg[c2]].parentId

\* C2: two concurrent selects on two different children of one parent serialize:
\* once both are served exactly one main-conversation child of the parent is
\* selected, the one of the select that was served last.
C2_ConcurrentSelectsSerialize ==
    \A c1, c2 \in Clients :
        BothServed(c1, c2) =>
            LET parent == db[selArg[c1]].parentId
            IN  /\ lastSel[parent] \in {selArg[c1], selArg[c2]}
                /\ SelectedMainChildIds(db, parent) = {lastSel[parent]}

\* Reached: both concurrent selects on the same parent have been served.
C2_Witness ==
    \E c1, c2 \in Clients :
        /\ BothServed(c1, c2)
        /\ db[selArg[c1]].parentId # NoId

(***************************************************************************)
(* PART 3.  MemoryService (services/memory.py of the design)               *)
(***************************************************************************)

\* Number of rows the memory_chunks table may hold.
MaxChunks == 3

\* sessions.topic_id: the topic of each session.
SessionTopic(sessionId) == IF sessionId = "s3" THEN "B" ELSE "A"

Topics == {"A", "B"}

Sessions == {"s1", "s2", "s3"}

\* The embedding service is opaque: embed(text) is some point of a small space.
EmbSpace == {1, 2}

\* 1 - (embedding <=> query), in tenths.
Similarity(e1, e2) == IF e1 = e2 THEN 10 ELSE 5

\* PRIORITY_BOOSTS, in tenths: note 2.0, summary 1.5, message 1.0.
NoteBoost == 20

SummaryBoost == 15

MessageBoost == 10

PRIORITY_BOOSTS(chunkType) ==
    CASE chunkType = "note" -> NoteBoost
      [] chunkType = "summary" -> SummaryBoost
      [] chunkType = "message" -> MessageBoost

\* _is_indexed(node.id): a chunk of the node exists.
IsIndexed(ch, nodeId) == \E c \in DOMAIN ch : ch[c].nodeId = nodeId

\* The text index_node embeds: the summary of a collapsed node, else the content.
IndexContent(node) ==
    IF node.status = "collapsed" THEN node.collapsedSummary ELSE node.content

\* Whether index_node returns None before embedding anything.
IndexSkips(ch, node, force) ==
    \/ ~force /\ IsIndexed(ch, node.id)
    \/ node.status = "abandoned"

\* The row index_node creates.
NewChunk(ch, node, chunkType, embedding) ==
    [id |-> Cardinality(DOMAIN ch) + 1,
     topicId |-> SessionTopic(node.sessionId), sessionId |-> node.sessionId,
     nodeId |-> node.id, content |-> IndexContent(node), contentType |-> chunkType,
     embedding |-> embedding, priorityBoost |-> PRIORITY_BOOSTS(chunkType)]

\* index_node when it does not skip and the embedding succeeds.
IndexNodeInsert(ch, node, chunkType, embedding) ==
    MapSet(ch, Cardinality(DOMAIN ch) + 1, NewChunk(ch, node, chunkType, embedding))

\* No session_filter.
NoFilter == {"*"}

\* WHERE topic_id = $2 AND ($3 IS NULL OR session_id = ANY($3))
SearchWhereNoTopic(ch, topicId, sessionFilter) ==
    {c \in DOMAIN ch :
        sessionFilter = NoFilter \/ ch[c].sessionId \in sessionFilter}

SearchWhere(ch, topicId, sessionFilter) ==
    {c \in DOMAIN ch :
        /\ ch[c].topicId = topicId
        /\ sessionFilter = NoFilter \/ ch[c].sessionId \in sessionFilter}

\* (1 - (embedding <=> $1)) * priority_boost
WeightedScore(row, queryEmbedding) ==
    Similarity(row.embedding, queryEmbedding) * row.priorityBoost

\* The smaller of two integers.
Min2(a, b) == IF a <= b THEN a ELSE b

\* All orderings of the ids of a set, as sequences.
RECURSIVE Orderings(_)
Orderings(ids) ==
    IF ids = {} THEN {<<>>}
    ELSE UNION {{<<x>> \o q : q \in Orderings(ids \ {x})} : x \in ids}

\* The elements of a sequence.
Range(q) == {q[i] : i \in 1..Len(q)}

\* ORDER BY weighted_score DESC LIMIT $4: every list the query may return (rows
\* of equal score come in any order).
SearchResults(ch, queryEmbedding, topicId, limit, sessionFilter) ==
    LET rows == SearchWhere(ch, topicId, sessionFilter)
        n == Min2(limit, Cardinality(rows))
        score(c) == WeightedScore(ch[c], queryEmbedding)
    IN  {q \in UNION {Orderings(sub) : sub \in {t \in SUBSET rows : Cardinality(t) = n}} :
            /\ \A i \in 1..(Len(q) - 1) : score(q[i]) >= score(q[i + 1])
            /\ \A c \in rows \ Range(q) : \A i \in 1..Len(q) : score(q[i]) >= score(c)}

\* The nodes the memory service is exercised on: three sessions in two topics.
\*   s1 (topic A): a question, an accepted reply, an abandoned sibling reply;
\*   s2 (topic A): a question with a note;  s3 (topic B): a question with a note.
MemNodes ==
    LET row(id, sess, parent, type, status) ==
            [DbRow(id, sess, parent, <<"w", "w">>, type, 0, TRUE)
                EXCEPT !.status = status]
    IN  <<row(1, "s1", NoId, "user_message", "active"),
          row(2, "s1", 1, "assistant_message", "active"),
          [row(3, "s1", 1, "assistant_message", "abandoned") EXCEPT !.siblingIndex = 1],
          row(4, "s2", NoId, "user_message", "active"),
          row(5, "s2", 4, "user_note", "active"),
          row(6, "s3", NoId, "user_message", "active"),
          row(7, "s3", 6, "user_note", "active")>>

\* The nodes the indexing triggers pass to index_node, with the chunk type each
\* trigger uses: notes on creation, summaries on collapse, accepted replies.
IndexTargets == {n \in DOMAIN MemNodes : MemNodes[n].nodeType # "user_message"}

TriggerType(node) ==
    IF node.nodeType = "user_note" THEN "note"
    ELSE IF node.status = "collapsed" THEN "summary"
    ELSE "message"

MemInit ==
    /\ db = MemNodes
    /\ chunks = <<>>
    /\ MemIdle

\* index_node(node, chunk_type, force) returning a chunk.
MemIndex(n, force, embedding) ==
    /\ Cardinality(DOMAIN chunks) < MaxChunks
    /\ ~IndexSkips(chunks, db[n], force)
    /\ IndexContent(db[n]) # NoText
    /\ chunks' = IndexNodeInsert(chunks, db[n], TriggerType(db[n]), embedding)
    /\ memLast' = [op |-> "index", node |-> n, result |-> Cardinality(DOMAIN chunks) + 1]
    /\ UNCHANGED <<db, memOthers>>

\* index_node returning None: already indexed, or an abandoned node.
MemIndexSkip(n, force) ==
    /\ IndexSkips(chunks, db[n], force)
    /\ memLast' = [op |-> "index", node |-> n, result |-> NoId]
    /\ UNCHANGED <<db, chunks, memOthers>>

\* index_node raising: the embedding service fails (it always does on no text).
MemIndexFail(n, force) ==
    /\ ~IndexSkips(chunks, db[n], force)
    /\ memLast' = [op |-> "index", node |-> n, result |-> "error"]
    /\ UNCHANGED <<db, chunks, memOthers>>

\* search(topic_id, query, limit, session_filter)
MemSearch(topicId, queryEmbedding, limit, sessionFilter) ==
    /\ \E q \in SearchResults(chunks, queryEmbedding, topicId, limit, sessionFilter) :
           memLast' = [op |-> "search", topicId |-> topicId, limit |-> limit,
                       sessionFilter |-> sessionFilter, result |-> q]
    /\ UNCHANGED <<db, chunks, memOthers>>

\* search raising: the embedding of the query fails.
MemSearchFail(topicId) ==
    /\ memLast' = [op |-> "search_failed", topicId |-> topicId]
    /\ UNCHANGED <<db, chunks, memOthers>>

\* The limits and session filters the searches are called with.
SearchLimits == {1, 2}

SearchFilters == {NoFilter, {"s1"}, {"s2", "s3"}}

MemNext ==
    \/ \E n \in IndexTargets, f \in BOOLEAN, e \in EmbSpace : MemIndex(n, f, e)
    \/ \E n \in IndexTargets, f \in BOOLEAN : MemIndexSkip(n, f)
    \/ \E n \in IndexTargets, f \in BOOLEAN : MemIndexFail(n, f)
    \/ \E t \in Topics, e \in EmbSpace, l \in SearchLimits, sf \in SearchFilters :
           MemSearch(t, e, l, sf)
    \/ \E t \in Topics : MemSearchFail(t)

MemSpecInit == MemInit /\ StoreIdle /\ CtxIdle /\ ChatIdle /\ SelIdle /\ SideIdle /\ StrmIdle /\ SvcIdle /\ PathIdle /\ UiIdle /\ SessIdle /\ HlIdle

SpecMem == MemSpecInit /\ [][MemNext]_vars

\* C6: search(topicId = A, ...) returns only chunks of topic A and, with a session
\* filter, only chunks of the sessions in it.
C6_SearchStaysInTopic ==
    memLast.op = "search" =>
        \A i \in 1..Len(memLast.result) :
            /\ chunks[memLast.result[i]].topicId = memLast.topicId
            /\ memLast.sessionFilter # NoFilter =>
                   chunks[memLast.result[i]].sessionId \in memLast.sessionFilter

\* Reached: a search returned a chunk of its topic although a chunk of the other
\* topic would have scored strictly higher for the same query.
C6_Witness ==
    /\ memLast.op = "search"
    /\ Len(memLast.result) >= 1
    /\ \E c \in DOMAIN chunks :
           /\ chunks[c].topicId # memLast.topicId
           /\ chunks[c].priorityBoost > chunks[memLast.result[1]].priorityBoost
           /\ chunks[c].embedding = chunks[memLast.result[1]].embedding

(***************************************************************************)
(* PART 4.  ContextBuilder (services/context_builder.py of the design)     *)
(***************************************************************************)

\* Longest conversation path a context is built for.
MaxPathLen == 3

\* max_context_tokens
MaxContextTokens == 8000

\* The tokens build_context reserves for the response.
ResponseReserve == 1000

\* The limit of the memory search of build_context.
RagLimit == 5

\* The system prompt is a fixed text of about 75 tokens.
SystemPromptTokens == 75

\* The word "K" stands for a passage of this many tokens.
PassageTokens == 1000

\* Tokens of one word of a text: the word "w" and the markup words count one.
WordTokens(word) ==
    CASE word = "K" -> PassageTokens
      [] word = "sys" -> SystemPromptTokens
      [] OTHER -> 1

\* count_tokens(text): texts are sequences of words.
RECURSIVE count_tokens(_)
count_tokens(text) ==
    IF text = <<>> THEN 0 ELSE WordTokens(Head(text)) + count_tokens(Tail(text))

\* _get_system_prompt()
SystemPrompt == <<"sys">>

\* get_node_path(target_node_id): the rows from the root down to the target.
RECURSIVE get_node_path(_, _)
get_node_path(d, nodeId) ==
    IF nodeId \notin DOMAIN d THEN <<>>
    ELSE IF d[nodeId].parentId \in DOMAIN d
         THEN Append(get_node_path(d, d[nodeId].parentId), nodeId)
         ELSE <<nodeId>>

\* _format_memories(memories)
RECURSIVE FormatMemories(_, _)
FormatMemories(ch, memories) ==
    IF memories = <<>> THEN <<"Relevant context:">>
    ELSE FormatMemories(ch, SubSeq(memories, 1, Len(memories) - 1))
             \o <<"<memory>">> \o ch[memories[Len(memories)]].content \o <<"</memory>">>

\* The message _get_conversation_path makes of one node of the path (none for a
\* node of another type).
PathMessage(node) ==
    IF node.status = "collapsed" /\ node.collapsedSummary # NoText
    THEN <<[role |-> "assistant",
            content |-> <<"[summary:">> \o node.collapsedSummary \o <<"]">>]>>
    ELSE IF node.nodeType = "user_message"
    THEN <<[role |-> "user", content |-> node.content]>>
    ELSE IF node.nodeType = "assistant_message"
    THEN <<[role |-> "assistant", content |-> node.content]>>
    ELSE IF node.nodeType = "user_note"
    THEN <<[role |-> "system", content |-> <<"[note:">> \o node.content \o <<"]">>]>>
    ELSE <<>>

\* _get_conversation_path(node_id)
RECURSIVE PathMessages(_, _)
PathMessages(d, path) ==
    IF path = <<>> THEN <<>>
    ELSE PathMessage(d[Head(path)]) \o PathMessages(d, Tail(path))

GetConversationPath(d, nodeId) == PathMessages(d, get_node_path(d, nodeId))

\* Step 1 of build_context: the system prompt.
CtxSystemPrompt ==
    [messages |-> <<[role |-> "system", content |-> SystemPrompt]>>,
     total_tokens |-> count_tokens(SystemPrompt),
     retrieved_memories |-> <<>>]

\* Step 2: the memories the search returned, if any.
CtxAddMemories(c, ch, memories) ==
    IF memories = <<>> THEN c
    ELSE [messages |-> Append(c.messages,
                              [role |-> "system", content |-> FormatMemories(ch, memories)]),
          total_tokens |-> c.total_tokens + count_tokens(FormatMemories(ch, memories)),
          retrieved_memories |-> memories]

\* Step 3: the history loop, from the first message on, until one does not fit.
RECURSIVE CtxAddHistory(_, _)
CtxAddHistory(c, history) ==
    IF history = <<>> THEN c
    ELSE IF c.total_tokens + count_tokens(Head(history).content)
                > MaxContextTokens - ResponseReserve
    THEN c
    ELSE CtxAddHistory(
             [c EXCEPT !.messages = Append(@, Head(history)),
                       !.total_tokens = @ + count_tokens(Head(history).content)],
             Tail(history))

\* Step 4: the current user message.
CtxAddUserMessage(c, userMessage) ==
    [c EXCEPT !.messages = Append(@, [role |-> "user", content |-> userMessage]),
              !.total_tokens = @ + count_tokens(userMessage)]

\* build_context, given the memories its search returned (none without RAG).
build_context(d, ch, currentNodeId, userMessage, memories) ==
    CtxAddUserMessage(
        CtxAddHistory(CtxAddMemories(CtxSystemPrompt, ch, memories),
                      IF currentNodeId # NoId THEN GetConversationPath(d, currentNodeId)
                      ELSE <<>>),
        userMessage)

\* The texts of the nodes and of the user messages contexts are built for.
CtxContents == {<<"w">>, <<"K", "K", "K">>}

CtxUserMessages == {<<"w">>, <<"K", "K">>}

\* What a node of the path may be: active, collapsed with a summary, collapsed
\* without one.
CtxStates ==
    {[status |-> "active", collapsedSummary |-> NoText],
     [status |-> "collapsed", collapsedSummary |-> StoreSummary],
     [status |-> "collapsed", collapsedSummary |-> NoText]}

\* A conversation of k nodes in session s1: question, reply, question, ...
CtxChain(k, content, state) ==
    [i \in 1..k |->
        [DbRow(i, "s1", i - 1, content[i],
               IF i % 2 = 1 THEN "user_message" ELSE "assistant_message", 0, TRUE)
            EXCEPT !.status = state[i].status,
                   !.collapsedSummary = state[i].collapsedSummary]]

CtxChains ==
    UNION {{CtxChain(k, content, state) :
                content \in [1..k -> CtxContents], state \in [1..k -> CtxStates]} :
           k \in 0..MaxPathLen}

\* The chunks of the nodes of a set, indexed in id order with the given embeddings.
RECURSIVE IndexSet(_, _, _, _)
IndexSet(ch, d, ids, emb) ==
    IF ids = {} THEN ch
    ELSE LET n == CHOOSE x \in ids : \A y \in ids : x <= y
         IN  IndexSet(IndexNodeInsert(ch, d[n], TriggerType(d[n]), emb[n]),
                      d, ids \ {n}, emb)

\* The replies of a conversation that index_node can have indexed.
Indexable(d) ==
    {n \in DOMAIN d : /\ d[n].nodeType = "assistant_message"
                      /\ IndexContent(d[n]) # NoText}

CtxChunkTables(d) ==
    UNION {{IndexSet(<<>>, d, ids, emb) : emb \in [ids -> EmbSpace]} :
           ids \in SUBSET Indexable(d)}

CtxInit ==
    /\ db \in CtxChains
    /\ chunks \in CtxChunkTables(db)
    /\ CtxIdle

\* build_context is called; step 1 puts the system prompt.
CtxStart(currentNodeId, userMessage, includeRag) ==
    /\ ctxPc = "idle"
    /\ currentNodeId = NoId \/ currentNodeId \in DOMAIN db
    /\ ctxArgs' = [currentNodeId |-> currentNodeId, userMessage |-> userMessage,
                   includeRag |-> includeRag]
    /\ ctxOut' = CtxSystemPrompt
    /\ ctxPc' = "rag"
    /\ UNCHANGED <<db, chunks, ctxOthers>>

\* Step 2: the memory search of the session's topic and its formatted result.
CtxRag(queryEmbedding) ==
    /\ ctxPc = "rag"
    /\ IF ctxArgs.includeRag
       THEN \E memories \in SearchResults(chunks, queryEmbedding, SessionTopic("s1"),
                                          RagLimit, NoFilter) :
                ctxOut' = CtxAddMemories(ctxOut, chunks, memories)
       ELSE ctxOut' = ctxOut
    /\ ctxPc' = "history"
    /\ UNCHANGED <<db, chunks, ctxArgs, ctxOthers>>

\* Step 2 raising: the embedding of the query fails.
CtxRagFail ==
    /\ ctxPc = "rag"
    /\ ctxArgs.includeRag
    /\ ctxPc' = "failed"
    /\ UNCHANGED <<db, chunks, ctxArgs, ctxOut, ctxOthers>>

\* Step 3: the conversation history.
CtxHistory ==
    /\ ctxPc = "history"
    /\ ctxOut' = CtxAddHistory(ctxOut,
                     IF ctxArgs.currentNodeId # NoId
                     THEN GetConversationPath(db, ctxArgs.currentNodeId) ELSE <<>>)
    /\ ctxPc' = "user"
    /\ UNCHANGED <<db, chunks, ctxArgs, ctxOthers>>

\* Step 4 and the return.
CtxUser ==
    /\ ctxPc = "user"
    /\ ctxOut' = CtxAddUserMessage(ctxOut, ctxArgs.userMessage)
    /\ ctxPc' = "done"
    /\ UNCHANGED <<db, chunks, ctxArgs, ctxOthers>>

CtxNext ==
    \/ \E n \in 0..MaxPathLen, m \in CtxUserMessages, r \in BOOLEAN :
           CtxStart(n, m, r)
    \/ \E e \in EmbSpace : CtxRag(e)
    \/ CtxRagFail
    \/ CtxHistory
    \/ CtxUser

CtxSpecInit == CtxInit /\ StoreIdle /\ MemIdle /\ ChatIdle /\ SelIdle /\ SideIdle /\ StrmIdle /\ SvcIdle /\ PathIdle /\ UiIdle /\ SessIdle /\ HlIdle

SpecCtx == CtxSpecInit /\ [][CtxNext]_vars

\* The sum of the token counts of the messages of a list.
RECURSIVE MessagesTokens(_)
MessagesTokens(messages) ==
    IF messages = <<>> THEN 0
    ELSE count_tokens(Head(messages).content) + MessagesTokens(Tail(messages))

\* The messages of a finished context before the history: the system prompt and,
\* when memories were retrieved, the memory block.
HeadCount(c) == IF c.retrieved_memories # <<>> THEN 2 ELSE 1

\* The history messages of a finished context.
IncludedHistory(c) == SubSeq(c.messages, HeadCount(c) + 1, Len(c.messages) - 1)

\* q is a final part of w.
IsSuffix(q, w) == Len(q) <= Len(w) /\ SubSeq(w, Len(w) - Len(q) + 1, Len(w)) = q

\* The history build_context was called on.
CallHistory ==
    IF ctxArgs.currentNodeId # NoId THEN GetConversationPath(db, ctxArgs.currentNodeId)
    ELSE <<>>

\* C13: when the history does not fit, build_context drops messages from the
\* oldest end and keeps the most recent ones (the history it returns is a final
\* part of the path's history), and the system prompt and the memory block are in
\* the output.
C13_TruncatesFromOldest ==
    ctxPc = "done" =>
        /\ IsSuffix(IncludedHistory(ctxOut), CallHistory)
        /\ ctxOut.messages[1] = [role |-> "system", content |-> SystemPrompt]
        /\ ctxOut.retrieved_memories # <<>> =>
               ctxOut.messages[2] =
                   [role |-> "system",
                    content |-> FormatMemories(chunks, ctxOut.retrieved_memories)]

\* C14: for every collapsed node of the path, build_context's history holds exactly
\* one message "[Previous discussion summary: <summary>]" in place of its content
\* if it has a summary, and no message at all if it has none.
C14_CollapsedNodesInHistory ==
    ctxPc \in {"user", "done"} /\ ctxArgs.currentNodeId # NoId =>
        \A n \in Range(get_node_path(db, ctxArgs.currentNodeId)) :
            db[n].status = "collapsed" =>
                PathMessage(db[n]) =
                    IF db[n].collapsedSummary # NoText
                    THEN <<[role |-> "assistant",
                            content |-> <<"[summary:">> \o db[n].collapsedSummary
                                            \o <<"]">>]>>
                    ELSE <<>>

\* C5: whatever the session, current node, user message and memories found, the
\* message list build_context returns counts at most maxTokens tokens.
C5_ContextWithinMaxTokens ==
    ctxPc = "done" =>
        /\ MessagesTokens(ctxOut.messages) <= MaxContextTokens
        /\ ctxOut.total_tokens <= MaxContextTokens

(***************************************************************************)
(* PART 5.  ChatService.send_message (services/chat_service.py of the      *)
(*          design), two requests in flight                                *)
(***************************************************************************)

\* Most tokens the completion service streams for one request.
MaxStreamTokens == 2

\* The text each request sends.
RequestText(r) == IF r = 1 THEN <<"q1">> ELSE <<"q2">>

\* generation_config of the replies send_message stores.
OpenAiConfig == [provider |-> "openai", model |-> "gpt-4o"]

\* The largest sibling index among the children of parentId, -1 without children.
RECURSIVE MaxSiblingIndex(_, _)
MaxSiblingIndex(d, ids) ==
    IF ids = {} THEN -1
    ELSE LET x == CHOOSE y \in ids : TRUE
         IN  Max2(d[x].siblingIndex, MaxSiblingIndex(d, ids \ {x}))

\* create_node as an INSERT that leaves sibling_index and is_selected_path to the
\* column defaults.
CreateNodeDefaults(d, id, sessionId, parentId, content, nodeType, config) ==
    MapSet(d, id, [DbRow(id, sessionId, parentId, content, nodeType, 0, TRUE)
                      EXCEPT !.generationConfig = config])

\* db.create_node(NodeCreate(...)): the new row goes after its siblings and is the
\* selected one; a main-conversation row unselects its main-conversation siblings.
CreateNode(d, id, sessionId, parentId, content, nodeType, config) ==
    LET row == [DbRow(id, sessionId, parentId, content, nodeType,
                      1 + MaxSiblingIndex(d, ChildIds(d, parentId)), TRUE)
                   EXCEPT !.generationConfig = config]
        others == [x \in DOMAIN d |->
                      IF nodeType \in MainTypes /\ x \in MainChildIds(d, parentId)
                      THEN [d[x] EXCEPT !.isSelectedPath = FALSE]
                      ELSE d[x]]
    IN  MapSet(others, id, row)

\* The id the database gives the next row.
NewId(d) == Cardinality(DOMAIN d) + 1

\* The conversation the requests start from: a question and its reply.
ChatSeed ==
    <<DbRow(1, "s1", NoId, <<"w">>, "user_message", 0, TRUE),
      [DbRow(2, "s1", 1, <<"w">>, "assistant_message", 0, TRUE)
          EXCEPT !.generationConfig = OpenAiConfig]>>

ChatInit ==
    /\ db = ChatSeed
    /\ chunks = <<>>
    /\ ChatIdle

\* Step 1: the user node is created and the node_created event yielded.
ChatSend(r, parentNodeId, includeRag) ==
    /\ chat[r].pc = "idle"
    /\ parentNodeId = NoId \/ parentNodeId \in DOMAIN db
    /\ db' = CreateNode(db, NewId(db), "s1", parentNodeId, RequestText(r),
                        "user_message", NoConfig)
    /\ chat' = [chat EXCEPT ![r] =
                   [@ EXCEPT !.pc = "context", !.parentNodeId = parentNodeId,
                             !.content = RequestText(r), !.includeRag = includeRag,
                             !.userNode = NewId(db),
                             !.events = Append(@, "node_created")]]
    /\ UNCHANGED <<chunks, chatOthers>>

\* Step 2: build_context with the user node as the current node.
ChatBuildContext(r, queryEmbedding) ==
    /\ chat[r].pc = "context"
    /\ \E memories \in
           IF chat[r].includeRag
           THEN SearchResults(chunks, queryEmbedding, SessionTopic("s1"), RagLimit, NoFilter)
           ELSE {<<>>} :
         LET c == build_context(db, chunks, chat[r].userNode, chat[r].content, memories)
         IN  chat' = [chat EXCEPT ![r] =
                         [@ EXCEPT !.pc = "streaming", !.messages = c.messages,
                                   !.memoriesUsed = c.retrieved_memories]]
    /\ UNCHANGED <<db, chunks, chatOthers>>

\* Step 2 raising: the embedding of the query fails.
ChatBuildContextFail(r) ==
    /\ chat[r].pc = "context"
    /\ chat[r].includeRag
    /\ chat' = [chat EXCEPT ![r] = [@ EXCEPT !.pc = "failed", !.ended = "error"]]
    /\ UNCHANGED <<db, chunks, chatOthers>>

\* Step 3, one turn of the loop: a token arrives, is accumulated and yielded.
ChatToken(r) ==
    /\ chat[r].pc = "streaming"
    /\ Len(chat[r].fullResponse) < MaxStreamTokens
    /\ chat' = [chat EXCEPT ![r] =
                   [@ EXCEPT !.fullResponse = Append(@, "t"),
                             !.events = Append(@, "token")]]
    /\ UNCHANGED <<db, chunks, chatOthers>>

\* Step 3 ending: the completion service finishes the stream.
ChatStreamEnd(r) ==
    /\ chat[r].pc = "streaming"
    /\ chat' = [chat EXCEPT ![r] = [@ EXCEPT !.pc = "persist", !.ended = "completed"]]
    /\ UNCHANGED <<db, chunks, chatOthers>>

\* Step 3 raising: the completion service fails; the exception leaves send_message.
ChatProviderError(r) ==
    /\ chat[r].pc = "streaming"
    /\ chat' = [chat EXCEPT ![r] = [@ EXCEPT !.pc = "failed", !.ended = "error"]]
    /\ UNCHANGED <<db, chunks, chatOthers>>

\* Step 4: the assistant node is created with the accumulated text.
ChatCreateAssistant(r) ==
    /\ chat[r].pc = "persist"
    /\ db' = CreateNode(db, NewId(db), "s1", chat[r].userNode, chat[r].fullResponse,
                        "assistant_message", OpenAiConfig)
    /\ chat' = [chat EXCEPT ![r] = [@ EXCEPT !.pc = "index", !.assistantNode = NewId(db)]]
    /\ UNCHANGED <<chunks, chatOthers>>

\* Whether step 5 calls index_node: the request continues an assistant message.
IndexesParent(d, q) ==
    /\ q.parentNodeId # NoId
    /\ d[q.parentNodeId].nodeType = "assistant_message"

\* Step 5 and the complete event.
ChatIndex(r, embedding) ==
    /\ chat[r].pc = "index"
    /\ chunks' =
           IF /\ IndexesParent(db, chat[r])
              /\ ~IndexSkips(chunks, db[chat[r].parentNodeId], FALSE)
           THEN IndexNodeInsert(chunks, db[chat[r].parentNodeId], "message", embedding)
           ELSE chunks
    /\ chat' = [chat EXCEPT ![r] =
                   [@ EXCEPT !.pc = "complete", !.events = Append(@, "complete")]]
    /\ UNCHANGED <<db, chatOthers>>

\* Step 5 raising: the embedding of the parent's text fails.
ChatIndexFail(r) ==
    /\ chat[r].pc = "index"
    /\ IndexesParent(db, chat[r])
    /\ ~IndexSkips(chunks, db[chat[r].parentNodeId], FALSE)
    /\ chat' = [chat EXCEPT ![r] = [@ EXCEPT !.pc = "failed", !.ended = "error"]]
    /\ UNCHANGED <<db, chunks, chatOthers>>

\* How a client ends a request early.
AbortKinds == {"disconnected", "cancelled"}

\* The client goes away or cancels: the generator is closed where it is suspended
\* and none of its remaining statements runs.
ChatAbort(r, how) ==
    /\ chat[r].pc \in {"context", "streaming", "persist", "index"}
    /\ chat' = [chat EXCEPT ![r] =
                   [@ EXCEPT !.pc = "closed",
                             !.ended = IF @ = "completed" THEN @ ELSE how]]
    /\ UNCHANGED <<db, chunks, chatOthers>>

ChatNext ==
    \/ \E r \in Requests, p \in 0..(2 * Cardinality(Requests) + 1), rag \in BOOLEAN :
           ChatSend(r, p, rag)
    \/ \E r \in Requests, e \in EmbSpace : ChatBuildContext(r, e)
    \/ \E r \in Requests : ChatBuildContextFail(r)
    \/ \E r \in Requests : ChatToken(r)
    \/ \E r \in Requests : ChatStreamEnd(r)
    \/ \E r \in Requests : ChatProviderError(r)
    \/ \E r \in Requests : ChatCreateAssistant(r)
    \/ \E r \in Requests, e \in EmbSpace : ChatIndex(r, e)
    \/ \E r \in Requests : ChatIndexFail(r)
    \/ \E r \in Requests, how \in AbortKinds : ChatAbort(r, how)

ChatSpecInit == ChatInit /\ StoreIdle /\ MemIdle /\ CtxIdle /\ SelIdle /\ SideIdle /\ StrmIdle /\ SvcIdle /\ PathIdle /\ UiIdle /\ SessIdle /\ HlIdle

SpecChat == ChatSpecInit /\ [][ChatNext]_vars

\* send_message is over for the request: returned, raised or closed.
ChatOver(q) == q.pc \in {"complete", "failed", "closed"}

\* The assistant nodes stored under the request's user node.
Replies(d, q) ==
    {x \in ChildIds(d, q.userNode) : d[x].nodeType = "assistant_message"}

\* A row carries an incompleteness marker: anything but the status and the
\* generation_config of an ordinary complete reply.
MarkedIncomplete(row) == row.status # "active" \/ row.generationConfig # OpenAiConfig

\* C3: once the stream of a request has produced text, an assistant node under its
\* user node, in its session, is persisted however the stream ended (completion,
\* client disconnect, provider error): no request is over without one.
C3_AssistantNodePersisted ==
    \A r \in Requests :
        ChatOver(chat[r]) /\ chat[r].fullResponse # <<>> =>
            \E x \in Replies(db, chat[r]) : db[x].sessionId = db[chat[r].userNode].sessionId

\* C4: when the user cancels after text T was emitted, the persisted assistant
\* content is exactly T and the node carries an incompleteness marker.
C4_CancelPersistsPartialText ==
    \A r \in Requests :
        chat[r].ended = "cancelled" /\ chat[r].fullResponse # <<>> =>
            \E x \in Replies(db, chat[r]) :
                /\ db[x].content = chat[r].fullResponse
                /\ MarkedIncomplete(db[x])

\* Children e and c of m were created one right after the other under m.
Successive(d, m, e, c) ==
    /\ e \in MainChildIds(d, m) /\ c \in MainChildIds(d, m)
    /\ d[e].createdAt < d[c].createdAt
    /\ ~\E x \in ChildIds(d, m) : d[e].createdAt < d[x].createdAt /\ d[x].createdAt < d[c].createdAt

\* The position of x in a sequence without repetitions (0 if absent).
IndexOf(q, x) == IF \E i \in 1..Len(q) : q[i] = x
                 THEN CHOOSE i \in 1..Len(q) : q[i] = x ELSE 0

\* C10: two successive forks from the same main-conversation parent M each create a
\* node whose parentId is M; the second's siblingIndex is the first's plus one;
\* after the second exactly one of the two is selected; getMainSiblings returns
\* both in creation order.
C10_SuccessiveForks ==
    /\ \A r \in Requests :
           chat[r].userNode # NoId => db[chat[r].userNode].parentId = chat[r].parentNodeId
    /\ \A m \in DOMAIN db : \A e, c \in MainChildIds(db, m) :
           Successive(db, m, e, c) =>
               /\ db[c].siblingIndex = db[e].siblingIndex + 1
               /\ (\A x \in ChildIds(db, m) : db[x].createdAt <= db[c].createdAt)
                      => (db[e].isSelectedPath # db[c].isSelectedPath)
               /\ IndexOf(getMainSiblings(db, c), e) >= 1
               /\ IndexOf(getMainSiblings(db, c), e) < IndexOf(getMainSiblings(db, c), c)

\* Reached: both requests forked from the same assistant message, one after the
\* other, and nothing else was created under it since.
C10_Witness ==
    /\ chat[1].userNode # NoId /\ chat[2].userNode # NoId
    /\ chat[1].parentNodeId = chat[2].parentNodeId
    /\ chat[1].parentNodeId # NoId
    /\ db[chat[1].parentNodeId].nodeType = "assistant_message"
    /\ Successive(db, chat[1].parentNodeId, chat[1].userNode, chat[2].userNode)
    /\ \A x \in ChildIds(db, chat[1].parentNodeId) :
           db[x].createdAt <= db[chat[2].userNode].createdAt

(***************************************************************************)
(* PART 6.  Side chat threads: App.handleOpenSideChat, handleCloseSideChat *)
(*          and handleSendSideChat against the side chat endpoints         *)
(***************************************************************************)

\* The message the side chats are opened on: the reply of the seed conversation.
SideParent == 2

\* The side chat rows of parentId with the given selection.
ThreadNodes(d, parentId, selectedText) ==
    {x \in ChildIds(d, parentId) :
        /\ d[x].nodeType \in {"side_chat_user", "side_chat_assistant"}
        /\ d[x].selectedText = selectedText}

\* GET /nodes/{id}/side-chats?selected_text=...: the thread of the selection.
getSideChats(d, parentId, selectedText) ==
    OrderRows(d, ThreadNodes(d, parentId, selectedText))

\* The row the side chat endpoint stores for a turn of a thread.
CreateSideChatNode(d, id, parentId, nodeType, selectedText) ==
    [CreateNode(d, id, "s1", parentId, <<"w">>, nodeType, NoConfig)
        EXCEPT ![id].selectedText = selectedText]

SideInit ==
    /\ db = ChatSeed
    /\ chunks = <<>>
    /\ SideIdle

\* handleOpenSideChat up to the answer of getSideChats.
SideOpenFetch(selectedText) ==
    /\ sideOpen[selectedText].pc = "idle"
    /\ sideOpen' = [sideOpen EXCEPT ![selectedText] =
                       [pc |-> "fetched",
                        messages |-> getSideChats(db, SideParent, selectedText)]]
    /\ UNCHANGED <<db, chunks, sidePanel, sideReq, sideOthers>>

\* handleOpenSideChat after the await: the panel shows the thread.
SideOpenApply(selectedText) ==
    /\ sideOpen[selectedText].pc = "fetched"
    /\ sidePanel' = [sidePanel EXCEPT !.sideChatPanelNodeId = SideParent,
                                      !.sideChatSelectedText = selectedText,
                                      !.sideChatMessages = sideOpen[selectedText].messages]
    /\ sideOpen' = [sideOpen EXCEPT ![selectedText] = [pc |-> "idle", messages |-> <<>>]]
    /\ UNCHANGED <<db, chunks, sideReq, sideOthers>>

\* handleOpenSideChat when the answer of getSideChats is lost: logged, the panel
\* stays as it is.
SideOpenFail(selectedText) ==
    /\ sideOpen[selectedText].pc = "fetched"
    /\ sideOpen' = [sideOpen EXCEPT ![selectedText] = [pc |-> "idle", messages |-> <<>>]]
    /\ UNCHANGED <<db, chunks, sidePanel, sideReq, sideOthers>>

\* handleCloseSideChat
SideClose ==
    /\ sidePanel.sideChatPanelNodeId # NoId
    /\ sidePanel' = [ClosedPanel EXCEPT !.sideChatCount = sidePanel.sideChatCount]
    /\ UNCHANGED <<db, chunks, sideOpen, sideReq, sideOthers>>

\* handleSendSideChat up to the request: the panel's node and selection go with it.
SideSend(k) ==
    /\ sideReq[k].pc = "idle"
    /\ sidePanel.sideChatPanelNodeId # NoId
    /\ sidePanel' = [sidePanel EXCEPT !.sideChatStreamingContent = <<>>,
                                      !.isSideChatStreaming = TRUE]
    /\ sideReq' = [sideReq EXCEPT ![k] =
                      [pc |-> "sent", parentNodeId |-> sidePanel.sideChatPanelNodeId,
                       selectedText |-> sidePanel.sideChatSelectedText, tokens |-> 0]]
    /\ UNCHANGED <<db, chunks, sideOpen, sideOthers>>

\* The user turn is stored and its user_node event reaches onUserNode.
SideUserNode(k) ==
    /\ sideReq[k].pc = "sent"
    /\ db' = CreateSideChatNode(db, NewId(db), sideReq[k].parentNodeId, "side_chat_user",
                                sideReq[k].selectedText)
    /\ sidePanel' = [sidePanel EXCEPT !.sideChatMessages = Append(@, NewId(db))]
    /\ sideReq' = [sideReq EXCEPT ![k].pc = "streaming"]
    /\ UNCHANGED <<chunks, sideOpen, sideOthers>>

\* A token event reaches onToken.
SideToken(k) ==
    /\ sideReq[k].pc = "streaming"
    /\ sideReq[k].tokens < MaxStreamTokens
    /\ sidePanel' = [sidePanel EXCEPT !.sideChatStreamingContent = Append(@, "t")]
    /\ sideReq' = [sideReq EXCEPT ![k].tokens = @ + 1]
    /\ UNCHANGED <<db, chunks, sideOpen, sideOthers>>

\* The reply is stored and its complete event reaches onComplete.
SideComplete(k) ==
    /\ sideReq[k].pc = "streaming"
    /\ db' = CreateSideChatNode(db, NewId(db), sideReq[k].parentNodeId,
                                "side_chat_assistant", sideReq[k].selectedText)
    /\ sidePanel' = [sidePanel EXCEPT !.isSideChatStreaming = FALSE,
                                      !.sideChatStreamingContent = <<>>,
                                      !.sideChatMessages = Append(@, NewId(db)),
                                      !.sideChatCount = @ + 2]
    /\ sideReq' = [sideReq EXCEPT ![k].pc = "done"]
    /\ UNCHANGED <<chunks, sideOpen, sideOthers>>

\* The request or its stream fails: onError.
SideError(k) ==
    /\ sideReq[k].pc \in {"sent", "streaming"}
    /\ sidePanel' = [sidePanel EXCEPT !.isSideChatStreaming = FALSE,
                                      !.sideChatStreamingContent = <<>>]
    /\ sideReq' = [sideReq EXCEPT ![k].pc = "failed"]
    /\ UNCHANGED <<db, chunks, sideOpen, sideOthers>>

SideNext ==
    \/ \E s \in Selections : SideOpenFetch(s)
    \/ \E s \in Selections : SideOpenApply(s)
    \/ \E s \in Selections : SideOpenFail(s)
    \/ SideClose
    \/ \E k \in SideStreams : SideSend(k)
    \/ \E k \in SideStreams : SideUserNode(k)
    \/ \E k \in SideStreams : SideToken(k)
    \/ \E k \in SideStreams : SideComplete(k)
    \/ \E k \in SideStreams : SideError(k)

SideSpecInit == SideInit /\ StoreIdle /\ MemIdle /\ CtxIdle /\ ChatIdle /\ SelIdle /\ StrmIdle /\ SvcIdle /\ PathIdle /\ UiIdle /\ SessIdle /\ HlIdle

SpecSide == SideSpecInit /\ [][SideNext]_vars

\* C11: for two different selections on one parent, whatever the interleaving of
\* opening and sending, the message history of one thread (stored, or held by the
\* panel while it shows that thread) has no node in common with the other's.
C11_ThreadsDisjoint ==
    \A s1, s2 \in Selections :
        s1 # s2 =>
            /\ ThreadNodes(db, SideParent, s1) \cap ThreadNodes(db, SideParent, s2) = {}
            /\ sidePanel.sideChatSelectedText = s1 =>
                   Range(sidePanel.sideChatMessages) \cap ThreadNodes(db, SideParent, s2) = {}

(***************************************************************************)
(* PART 7.  ApiClient.sendMessageStream: reading the event stream          *)
(***************************************************************************)

\* The texts a token may be.
TokenValues == {"a", "b"}

\* The bytes of one event: "data: ", the JSON of the event, and a blank line.  The
\* prefix is two symbols and the JSON three, so that a read may end inside either.
Frame(body) == <<"data", ": ", "{", body, "}", "\n", "\n">>

\* buffer.split('\n')
RECURSIVE SplitLines(_, _)
SplitLines(text, line) ==
    IF text = <<>> THEN <<line>>
    ELSE IF Head(text) = "\n" THEN <<line>> \o SplitLines(Tail(text), <<>>)
    ELSE SplitLines(Tail(text), Append(line, Head(text)))

\* line.startsWith('data: ')
StartsWithData(line) == Len(line) >= 2 /\ line[1] = "data" /\ line[2] = ": "

\* JSON.parse(jsonStr) succeeds.
ParsesAsJson(jsonStr) == Len(jsonStr) = 3 /\ jsonStr[1] = "{" /\ jsonStr[3] = "}"

\* processLine(line): the callbacks of handleSendMessage on the client state.
\* The switch has cases for user_node, token and complete; an event of another
\* type, such as error, is dropped.
processLine(r, line) ==
    IF ~StartsWithData(line) THEN r
    ELSE LET jsonStr == SubSeq(line, 3, Len(line))
         IN  IF jsonStr = <<>> \/ ~ParsesAsJson(jsonStr) THEN r
             ELSE IF jsonStr[2] = "U"
             THEN [r EXCEPT !.userNodes = @ + 1, !.isStreaming = TRUE,
                            !.isLoading = FALSE]
             ELSE IF jsonStr[2] = "C"
             THEN [r EXCEPT !.completes = @ + 1, !.streamingContent = <<>>,
                            !.isStreaming = FALSE]
             ELSE IF jsonStr[2] = "E" THEN r
             ELSE [r EXCEPT !.onTokenCalls = Append(@, jsonStr[2]),
                            !.streamingContent = Append(@, jsonStr[2])]

\* for (const line of lines) processLine(line)
RECURSIVE processLines(_, _)
processLines(r, lines) ==
    IF lines = <<>> THEN r ELSE processLines(processLine(r, Head(lines)), Tail(lines))

\* One turn of the read loop that forgets the unfinished last line.
ReadTurnNoCarry(r, value, done) ==
    LET lines == SplitLines(r.buffer \o value, <<>>)
    IN  [processLines(r, lines) EXCEPT !.buffer = <<>>,
                                       !.pc = IF done THEN "done" ELSE "reading",
                                       !.carried = @ \/ lines[Len(lines)] # <<>>]

\* One turn of the read loop: the value is appended to the buffer, the complete
\* lines are processed and the unfinished last line is kept, unless done.  The
\* field carried records that some read ended inside a line.
ReadTurn(r, value, done) ==
    LET lines == SplitLines(r.buffer \o value, <<>>)
    IN  IF done
        THEN [processLines(r, lines) EXCEPT !.buffer = <<>>, !.pc = "done"]
        ELSE [processLines(r, SubSeq(lines, 1, Len(lines) - 1))
                 EXCEPT !.buffer = lines[Len(lines)],
                        !.carried = @ \/ lines[Len(lines)] # <<>>]

StrmInit == StrmIdle /\ db = <<>> /\ chunks = <<>>

\* The server writes the user_node event.
SrvUserNode ==
    /\ srv.pc = "start"
    /\ wire' = wire \o Frame("U")
    /\ srv' = [srv EXCEPT !.pc = "tokens"]
    /\ UNCHANGED <<db, chunks, reader, strmOthers>>

\* The server writes a token event.
SrvToken(token) ==
    /\ srv.pc = "tokens"
    /\ Len(srv.produced) < MaxStreamTokens
    /\ wire' = wire \o Frame(token)
    /\ srv' = [srv EXCEPT !.produced = Append(@, token)]
    /\ UNCHANGED <<db, chunks, reader, strmOthers>>

\* The server writes the complete event and closes the response.
SrvComplete ==
    /\ srv.pc = "tokens"
    /\ wire' = wire \o Frame("C")
    /\ srv' = [srv EXCEPT !.pc = "closed"]
    /\ UNCHANGED <<db, chunks, reader, strmOthers>>

\* reader.read() returns the next n bytes.
StreamRead(n) ==
    /\ reader.pc = "reading"
    /\ n <= Len(wire)
    /\ reader' = ReadTurn(reader, SubSeq(wire, 1, n), FALSE)
    /\ wire' = SubSeq(wire, n + 1, Len(wire))
    /\ UNCHANGED <<db, chunks, srv, strmOthers>>

\* reader.read() returns done, alone or with the last bytes.
StreamReadDone ==
    /\ reader.pc = "reading"
    /\ srv.pc = "closed"
    /\ reader' = ReadTurn(reader, wire, TRUE)
    /\ wire' = <<>>
    /\ UNCHANGED <<db, chunks, srv, strmOthers>>

\* reader.read() throws: onError.
StreamReadError ==
    /\ reader.pc = "reading"
    /\ reader' = [reader EXCEPT !.pc = "error", !.streamingContent = <<>>,
                                !.isLoading = FALSE, !.isStreaming = FALSE]
    /\ UNCHANGED <<db, chunks, wire, srv, strmOthers>>

\* The longest value one read returns.
MaxRead == 8

StrmNext ==
    \/ SrvUserNode
    \/ \E t \in TokenValues : SrvToken(t)
    \/ SrvComplete
    \/ \E n \in 1..MaxRead : StreamRead(n)
    \/ StreamReadDone
    \/ StreamReadError

StrmSpecInit == StrmInit /\ StoreIdle /\ MemIdle /\ CtxIdle /\ ChatIdle /\ SelIdle /\ SideIdle /\ SvcIdle /\ PathIdle /\ UiIdle /\ SessIdle /\ HlIdle

SpecStrm == StrmSpecInit /\ [][StrmNext]_vars

\* q is an initial part of w.
IsPrefix(q, w) == Len(q) <= Len(w) /\ SubSeq(w, 1, Len(q)) = q

\* C12: the tokens handed to onToken are at every moment an initial part of the
\* tokens the server produced, in the same order; the streaming text is their
\* accumulation until the complete event; and when the stream has been read to
\* its end they are all of them, however the bytes were split across reads.
C12_TokensDeliveredInOrder ==
    /\ IsPrefix(reader.onTokenCalls, srv.produced)
    /\ reader.completes = 0 /\ reader.pc = "reading" =>
           reader.streamingContent = reader.onTokenCalls
    /\ reader.pc = "done" =>
           /\ reader.onTokenCalls = srv.produced
           /\ reader.userNodes = 1 /\ reader.completes = 1

\* Reached: a stream of two different tokens read to its end, in which some read
\* ended inside an event.
C12_Witness ==
    /\ reader.pc = "done"
    /\ Len(reader.onTokenCalls) >= 2
    /\ reader.onTokenCalls[1] # reader.onTokenCalls[2]
    /\ reader.carried

(***************************************************************************)
(* PART 8.  ChatService.collapse_branch and MemoryService.index_node, step *)
(*          by step, with two calls in flight                              *)
(***************************************************************************)

\* The nodes the calls work on: the first two sessions of MemNodes.
SvcNodes == SubSeq(MemNodes, 1, 5)

\* get_node_descendants(node_id): "all nodes in this branch", the node and
\* everything below it.
RECURSIVE get_node_descendants(_, _)
get_node_descendants(d, nodeId) ==
    {nodeId} \cup UNION {get_node_descendants(d, c) : c \in ChildIds(d, nodeId)}

\* Whether the conversation collapse_branch builds of a branch has a message.
HasConversation(d, nodeId) ==
    \E x \in get_node_descendants(d, nodeId) : d[x].nodeType \in MainTypes

\* update_node(node_id, NodeUpdate(status = COLLAPSED, collapsed_summary = summary)):
\* a field given as None is left as it is.
UpdateCollapsed(d, nodeId, summary) ==
    [d EXCEPT ![nodeId].status = "collapsed",
              ![nodeId].collapsedSummary = IF summary # NoText THEN summary ELSE @]

SvcInit ==
    /\ db = SvcNodes
    /\ chunks = <<>>
    /\ SvcIdle

\* collapse_branch(node_id, generate_summary) up to its first await.
ColStart(k, nodeId, generateSummary) ==
    /\ calls[k].op = "none"
    /\ calls' = [calls EXCEPT ![k] =
                    [NoCall EXCEPT !.op = "collapse", !.nodeId = nodeId,
                                   !.statusBefore = db[nodeId].status,
                                   !.pc = IF generateSummary /\ HasConversation(db, nodeId)
                                          THEN "summarize" ELSE "update"]]
    /\ UNCHANGED <<db, chunks, svcOthers>>

\* llm.generate_summary returns the summary text.
ColSummary(k) ==
    /\ calls[k].pc = "summarize"
    /\ calls' = [calls EXCEPT ![k].summary = StoreSummary, ![k].pc = "update"]
    /\ UNCHANGED <<db, chunks, svcOthers>>

\* llm.generate_summary raises: the exception leaves collapse_branch.
ColSummaryFail(k) ==
    /\ calls[k].pc = "summarize"
    /\ calls' = [calls EXCEPT ![k].pc = "failed"]
    /\ UNCHANGED <<db, chunks, svcOthers>>

\* db.update_node; with a summary index_node is called next, else the node is
\* returned.
ColUpdate(k) ==
    /\ calls[k].pc = "update"
    /\ db' = UpdateCollapsed(db, calls[k].nodeId, calls[k].summary)
    /\ calls' = [calls EXCEPT ![k].pc = IF calls[k].summary # NoText
                                       THEN "idx_check" ELSE "done",
                              ![k].node = db'[calls[k].nodeId],
                              ![k].chunkType = "summary"]
    /\ UNCHANGED <<chunks, svcOthers>>

\* index_node(node, chunk_type) called by one of the indexing triggers.
IdxStart(k, nodeId) ==
    /\ calls[k].op = "none"
    /\ calls' = [calls EXCEPT ![k] =
                    [NoCall EXCEPT !.op = "index", !.nodeId = nodeId, !.node = db[nodeId],
                                   !.statusBefore = db[nodeId].status,
                                   !.chunkType = TriggerType(db[nodeId]),
                                   !.pc = "idx_check"]]
    /\ UNCHANGED <<db, chunks, svcOthers>>

\* index_node: the two early returns (force is not given).
IdxCheck(k) ==
    /\ calls[k].pc = "idx_check"
    /\ calls' = [calls EXCEPT ![k].pc = IF IndexSkips(chunks, calls[k].node, FALSE)
                                       THEN "done" ELSE "idx_embed"]
    /\ UNCHANGED <<db, chunks, svcOthers>>

\* index_node: the embedding of the content arrives.
IdxEmbed(k, embedding) ==
    /\ calls[k].pc = "idx_embed"
    /\ IndexContent(calls[k].node) # NoText
    /\ calls' = [calls EXCEPT ![k].embedding = embedding, ![k].pc = "idx_insert"]
    /\ UNCHANGED <<db, chunks, svcOthers>>

\* index_node: the embedding service raises.
IdxEmbedFail(k) ==
    /\ calls[k].pc = "idx_embed"
    /\ calls' = [calls EXCEPT ![k].pc = "failed"]
    /\ UNCHANGED <<db, chunks, svcOthers>>

\* index_node: the chunk is created.
IdxInsert(k) ==
    /\ calls[k].pc = "idx_insert"
    /\ chunks' = IndexNodeInsert(chunks, calls[k].node, calls[k].chunkType,
                                 calls[k].embedding)
    /\ calls' = [calls EXCEPT ![k].pc = "done",
                              ![k].result = Cardinality(DOMAIN chunks) + 1]
    /\ UNCHANGED <<db, svcOthers>>

SvcNext ==
    \/ \E k \in ServiceCalls, n \in DOMAIN SvcNodes, g \in BOOLEAN : ColStart(k, n, g)
    \/ \E k \in ServiceCalls : ColSummary(k)
    \/ \E k \in ServiceCalls : ColSummaryFail(k)
    \/ \E k \in ServiceCalls : ColUpdate(k)
    \/ \E k \in ServiceCalls, n \in DOMAIN SvcNodes : IdxStart(k, n)
    \/ \E k \in ServiceCalls : IdxCheck(k)
    \/ \E k \in ServiceCalls, e \in EmbSpace : IdxEmbed(k, e)
    \/ \E k \in ServiceCalls : IdxEmbedFail(k)
    \/ \E k \in ServiceCalls : IdxInsert(k)

SvcSpecInit == SvcInit /\ StoreIdle /\ MemIdle /\ CtxIdle /\ ChatIdle /\ SelIdle /\ SideIdle /\ StrmIdle /\ PathIdle /\ UiIdle /\ SessIdle /\ HlIdle

SpecSvc == SvcSpecInit /\ [][SvcNext]_vars

(***************************************************************************)
(* Further properties of the parts above                                   *)
(***************************************************************************)

\* C15: when collapse_branch is asked for a summary and the generation fails, the
\* collapse still completes: the node is collapsed, without summary.
C15_CollapseSurvivesSummaryFailure ==
    \A k \in ServiceCalls :
        calls[k].op = "collapse" /\ calls[k].pc = "failed" /\ calls[k].summary = NoText =>
            /\ db[calls[k].nodeId].status = "collapsed"
            /\ db[calls[k].nodeId].collapsedSummary = NoText

\* C16: a collapse_branch of an active node for which the completion service
\* returned the summary S leaves the node collapsed with collapsedSummary = S, and
\* afterwards a chunk of the node with contentType summary and boost 1.5 exists.
C16_CollapseStoresAndIndexesSummary ==
    \A k \in ServiceCalls :
        /\ calls[k].op = "collapse" /\ calls[k].pc = "done"
        /\ calls[k].statusBefore = "active" /\ calls[k].summary # NoText
        => /\ db[calls[k].nodeId].status = "collapsed"
           /\ db[calls[k].nodeId].collapsedSummary = calls[k].summary
           /\ \E c \in DOMAIN chunks :
                  /\ chunks[c].nodeId = calls[k].nodeId
                  /\ chunks[c].contentType = "summary"
                  /\ chunks[c].priorityBoost = SummaryBoost

\* C17: collapsing a node leaves every node's content as it is, and expanding it
\* again (collapsed -> active) leaves every content and the node's
\* collapsedSummary as the collapse stored them.
C17_CollapseExpandRoundTrip ==
    [][\A n \in DOMAIN nodes \cap DOMAIN nodes' :
           /\ nodes'[n].status = "collapsed" /\ nodes[n].status # "collapsed" =>
                  \A m \in DOMAIN nodes : m \in DOMAIN nodes' /\ nodes'[m].content = nodes[m].content
           /\ nodes[n].status = "collapsed" /\ nodes'[n].status = "active" =>
                  /\ \A m \in DOMAIN nodes :
                         m \in DOMAIN nodes' /\ nodes'[m].content = nodes[m].content
                  /\ nodes'[n].collapsedSummary = nodes[n].collapsedSummary]_vars

\* Reached: a node with a child was collapsed with a summary and expanded again.
C17_Witness ==
    \E n \in DOMAIN nodes :
        /\ nodes[n].status = "active"
        /\ nodes[n].collapsedSummary = StoreSummary
        /\ \E m \in DOMAIN nodes : nodes[m].parentId = n

\* C18: whatever the interleaving of index_node calls without force, no node has
\* more than one chunk, and no call goes on to create a chunk for a node that was
\* abandoned when it was called.
C18_IndexOncePerNode ==
    /\ \A n \in DOMAIN db :
           Cardinality({c \in DOMAIN chunks : chunks[c].nodeId = n}) <= 1
    /\ \A k \in ServiceCalls :
           calls[k].op = "index" /\ calls[k].statusBefore = "abandoned" =>
               calls[k].pc \in {"idx_check", "done"} /\ calls[k].result = NoId

\* C19: when indexing the accepted parent fails during a chat request, the request
\* has persisted its assistant node and still emits the complete event: no
\* request that stored its assistant node ends as failed.
C19_IndexFailureNotPropagated ==
    \A r \in Requests :
        chat[r].assistantNode # NoId /\ chat[r].pc \in {"complete", "failed"} =>
            /\ chat[r].assistantNode \in DOMAIN db
            /\ chat[r].pc = "complete"
            /\ chat[r].events[Len(chat[r].events)] = "complete"

\* The walk from n up the parentId pointers meets an id that is not stored.
RECURSIVE PathBroken(_, _, _)
PathBroken(ns, n, walked) ==
    IF n = NoId \/ n \in walked THEN FALSE
    ELSE IF n \notin DOMAIN ns THEN TRUE
    ELSE PathBroken(ns, ns[n].parentId, walked \cup {n})

\* C20: getNodePath(n) fails when n or an ancestor on the way to the root is not
\* stored; at the least it returns no partial path then.
C20_PathNotFound ==
    \A n \in StoreIds :
        PathBroken(nodes, n, {}) => getNodePath(nodes, n).path = <<>>

(***************************************************************************)
(* PART 9.  getNodePath on any store content (stores/chatStore.ts)         *)
(***************************************************************************)

\* addNode(node) with whatever node the caller passes: nodes.set(node.id, node)
\* checks neither the id nor the parentId, so a node may replace a stored one
\* and may name any id as its parent, itself included.
addNodeAny(id, sessionId, parentId) ==
    /\ nodes' = MapSet(nodes, id,
                       NewStoreNode(id, sessionId, parentId, "user_message"))
    /\ UNCHANGED <<nextId, storeOthers>>

\* A call getNodePath(nodeId), with the ids of the path it returns.  A call
\* whose loop does not end returns nothing.
PathGet(nodeId) ==
    /\ LET r == getNodePath(nodes, nodeId)
       IN  pathOut' = [nodeId |-> nodeId, ends |-> r.ends,
                       path |-> IF r.ends
                                THEN [i \in 1..Len(r.path) |-> r.path[i].id]
                                ELSE <<>>]
    /\ UNCHANGED <<backVars, pathOthers>>

PathNext ==
    \/ \E id \in StoreIds, p \in StoreIds \cup {NoId} : addNodeAny(id, "s1", p)
    \/ \E n \in StoreIds : PathGet(n)

PathSpecInit == StoreInit /\ BackIdle /\ MemIdle /\ CtxIdle /\ ChatIdle /\ SelIdle /\ SideIdle /\ StrmIdle /\ SvcIdle /\ PathIdle /\ UiIdle /\ SessIdle /\ HlIdle

SpecPath == PathSpecInit /\ [][PathNext]_vars

\* C21: path traversal terminates on every store content, also when the
\* parentId pointers form a cycle: every getNodePath call ends.
C21_PathWalkTerminates ==
    pathOut.ends

\* C22: in every reachable state of the chat store, a node has a collapsedSummary
\* only if its status is collapsed.
C22_SummaryOnlyWhenCollapsed ==
    \A n \in DOMAIN nodes :
        nodes[n].collapsedSummary # NoText => nodes[n].status = "collapsed"

(***************************************************************************)
(* PART 10.  The chat store with its UI state (stores/chatStore.ts)        *)
(***************************************************************************)

\* The ids of a sequence of nodes.
PathIds(path) == {path[i].id : i \in 1..Len(path)}

\* navigateToNode(nodeId): sets the current node and expands every node on
\* getNodePath(nodeId).  The caller navigates to a node it displays.
navigateToNode(nodeId) ==
    /\ nodeId \in DOMAIN nodes
    /\ uiCurrentNodeId' = nodeId
    /\ expandedNodes' = expandedNodes \cup PathIds(getNodePath(nodes, nodeId).path)
    /\ UNCHANGED <<selectedBranches, backVars, uiOthers>>

\* selectBranch(parentId, childId): selectedBranches.set(parentId, childId), and
\* nothing else.  The caller picks a stored child of parentId.
selectBranch(parentId, childId) ==
    /\ childId \in DOMAIN nodes
    /\ nodes[childId].parentId = parentId
    /\ selectedBranches' = MapSet(selectedBranches, parentId, childId)
    /\ UNCHANGED <<uiCurrentNodeId, expandedNodes, backVars, uiOthers>>

\* toggleNodeExpanded(nodeId) on a displayed node.
toggleNodeExpanded(nodeId) ==
    /\ nodeId \in DOMAIN nodes
    /\ expandedNodes' = IF nodeId \in expandedNodes
                        THEN expandedNodes \ {nodeId}
                        ELSE expandedNodes \cup {nodeId}
    /\ UNCHANGED <<uiCurrentNodeId, selectedBranches, backVars, uiOthers>>

\* updateNode(nodeId, {isSelectedPath}): the flag of a node as the backend
\* returned it after a branch switch; a no-op when the node is not stored.
updateNodeSelectedPath(nodeId, flag) ==
    /\ nodes' = IF nodeId \in DOMAIN nodes
                THEN MapSet(nodes, nodeId, [nodes[nodeId] EXCEPT !.isSelectedPath = flag])
                ELSE nodes
    /\ UNCHANGED <<nextId, storeOthers>>

UiNext ==
    \/ \E p \in StoreIds \cup {NoId} : addNode("s1", p)
    \/ \E n \in StoreIds : deleteNode(n)
    \/ \E n \in StoreIds, b \in BOOLEAN : updateNodeSelectedPath(n, b)
    \/ \E p \in StoreIds, c \in StoreIds : selectBranch(p, c)
    \/ \E n \in StoreIds : navigateToNode(n)
    \/ \E n \in StoreIds : toggleNodeExpanded(n)

UiSpecInit == StoreInit /\ BackIdle /\ MemIdle /\ CtxIdle /\ ChatIdle /\ SelIdle /\ SideIdle /\ StrmIdle /\ SvcIdle /\ PathIdle /\ UiIdle /\ SessIdle /\ HlIdle

SpecUi == UiSpecInit /\ [][UiNext]_vars

\* C23: after any sequence of store operations the selection map agrees with the
\* isSelectedPath flags: selectedBranches maps p to c exactly when c is a stored
\* child of p whose isSelectedPath is true.
C23_SelectionMapAgreesWithFlags ==
    \A p \in StoreIds, c \in StoreIds :
        (p \in DOMAIN selectedBranches /\ selectedBranches[p] = c)
            <=> (c \in DOMAIN nodes /\ nodes[c].parentId = p /\ nodes[c].isSelectedPath)

\* Whether the store state refers to id n.
RefersTo(ns, cur, expanded, selected, n) ==
    \/ \E m \in DOMAIN ns : ns[m].parentId = n
    \/ cur = n
    \/ n \in expanded
    \/ n \in DOMAIN selected
    \/ \E p \in DOMAIN selected : selected[p] = n

\* C28: after deleteNode(n) of a stored node, no remaining state refers to n: no
\* stored node has parentId = n, and currentNodeId, expandedNodes and
\* selectedBranches do not contain n.
C28_DeleteLeavesNoReference ==
    [][\A n \in StoreIds :
          (n \in DOMAIN nodes /\ deleteNode(n))
              => ~RefersTo(nodes', uiCurrentNodeId', expandedNodes', selectedBranches', n)]_vars

(***************************************************************************)
(* PART 11.  ApiClient.sendMessageStream: every way the response can end   *)
(***************************************************************************)

\* The server writes an event of type error and closes the response.
SrvErrorEvent ==
    /\ srv.pc \in {"start", "tokens"}
    /\ wire' = wire \o Frame("E")
    /\ srv' = [srv EXCEPT !.pc = "closed"]
    /\ UNCHANGED <<db, chunks, reader, strmOthers>>

\* The response closes with no complete event: the generator behind it raised.
SrvClose ==
    /\ srv.pc \in {"start", "tokens"}
    /\ srv' = [srv EXCEPT !.pc = "closed"]
    /\ UNCHANGED <<db, chunks, wire, reader, strmOthers>>

\* What the server does next.
SrvStep ==
    \/ SrvUserNode
    \/ \E t \in TokenValues : SrvToken(t)
    \/ SrvComplete
    \/ SrvErrorEvent
    \/ SrvClose

\* One turn of the read loop that returns.
ReadStep ==
    \/ \E n \in 1..MaxRead : StreamRead(n)
    \/ StreamReadDone

StrmEndNext ==
    \/ SrvUserNode
    \/ \E t \in TokenValues : SrvToken(t)
    \/ SrvComplete
    \/ SrvErrorEvent
    \/ SrvClose
    \/ \E n \in 1..MaxRead : StreamRead(n)
    \/ StreamReadDone
    \/ StreamReadError

\* The server goes on until it has closed the response and the read loop goes on
\* while a read can return; a network failure may or may not happen.
SpecStrmEnd ==
    StrmSpecInit /\ [][StrmEndNext]_vars /\ WF_vars(SrvStep) /\ WF_vars(ReadStep)

\* C24: every call to sendMessageStream eventually invokes onComplete or onError,
\* however the response ends, so that isLoading and isStreaming both return to
\* false for good.
C24_StreamEventuallySettles ==
    /\ <>(reader.completes > 0 \/ reader.pc = "error")
    /\ <>[](~reader.isLoading /\ ~reader.isStreaming)

(***************************************************************************)
(* PART 12.  App: the displayed thread across session changes (App.tsx)    *)
(***************************************************************************)

\* Nodes a session's thread may grow to.
MaxSessNodes == 3

\* The k-th node of session s.
SessNode(s, k) == [sessionId |-> s, id |-> k]

\* loadFullThread(session.rootNodeId): the thread stored for s; empty when the
\* session has no root node.
SessThread(s) == [k \in 1..sessStored[s] |-> SessNode(s, k)]

\* The session-change effect: the URL names another session.  With a session it
\* calls loadSession and leaves nodes as they are; without one it clears nodes.
SessChange(s) ==
    /\ s # currentSessionId
    /\ currentSessionId' = s
    /\ IF s = "none"
       THEN appNodes' = <<>> /\ UNCHANGED sessLoads
       ELSE sessLoads' = sessLoads \cup {s} /\ UNCHANGED appNodes
    /\ UNCHANGED <<sessStream, sessStored, backVars, sessOthers>>

\* loadSession(sessionId) gets its responses: setNodes(fullThread), whatever the
\* current session is by now.
SessLoadDone(s) ==
    /\ s \in sessLoads
    /\ sessLoads' = sessLoads \ {s}
    /\ appNodes' = SessThread(s)
    /\ UNCHANGED <<currentSessionId, sessStream, sessStored, backVars, sessOthers>>

\* A request of loadSession fails: the catch logs and nothing is set.
SessLoadFail(s) ==
    /\ s \in sessLoads
    /\ sessLoads' = sessLoads \ {s}
    /\ UNCHANGED <<currentSessionId, appNodes, sessStream, sessStored, backVars,
                   sessOthers>>

\* handleSendMessage(message), not a fork: the request carries the current
\* session.
SessSend ==
    /\ currentSessionId # "none"
    /\ sessStream.pc \in {"idle", "done", "failed"}
    /\ sessStored[currentSessionId] + 2 <= MaxSessNodes
    /\ sessStream' = [pc |-> "sent", sessionId |-> currentSessionId]
    /\ UNCHANGED <<currentSessionId, appNodes, sessLoads, sessStored, backVars,
                   sessOthers>>

\* onUserNode(userNode): setNodes(prev => [...prev, userNode]).
SessOnUserNode ==
    /\ sessStream.pc = "sent"
    /\ LET s == sessStream.sessionId
       IN  /\ sessStored' = [sessStored EXCEPT ![s] = @ + 1]
           /\ appNodes' = Append(appNodes, SessNode(s, sessStored[s] + 1))
    /\ sessStream' = [sessStream EXCEPT !.pc = "streaming"]
    /\ UNCHANGED <<currentSessionId, sessLoads, backVars, sessOthers>>

\* onComplete(assistantNode): setNodes(prev => [...prev, assistantNode]).
SessOnComplete ==
    /\ sessStream.pc = "streaming"
    /\ LET s == sessStream.sessionId
       IN  /\ sessStored' = [sessStored EXCEPT ![s] = @ + 1]
           /\ appNodes' = Append(appNodes, SessNode(s, sessStored[s] + 1))
    /\ sessStream' = [sessStream EXCEPT !.pc = "done"]
    /\ UNCHANGED <<currentSessionId, sessLoads, backVars, sessOthers>>

\* onError(error): nodes are left as they are.
SessOnError ==
    /\ sessStream.pc \in {"sent", "streaming"}
    /\ sessStream' = [sessStream EXCEPT !.pc = "failed"]
    /\ UNCHANGED <<currentSessionId, appNodes, sessLoads, sessStored, backVars,
                   sessOthers>>

SessNext ==
    \/ \E s \in StoreSessions \cup {"none"} : SessChange(s)
    \/ \E s \in StoreSessions : SessLoadDone(s)
    \/ \E s \in StoreSessions : SessLoadFail(s)
    \/ SessSend
    \/ SessOnUserNode
    \/ SessOnComplete
    \/ SessOnError

SessSpecInit == SessIdle /\ StoreIdle /\ BackIdle /\ MemIdle /\ CtxIdle /\ ChatIdle /\ SelIdle /\ SideIdle /\ StrmIdle /\ SvcIdle /\ PathIdle /\ UiIdle /\ HlIdle

SpecSess == SessSpecInit /\ [][SessNext]_vars

\* C25: the node list shown by App belongs to the current session: no
\* loadSession response and no streaming callback writes nodes of another
\* session into it.
C25_NodesOfCurrentSession ==
    [][appNodes' # appNodes =>
          \A i \in 1..Len(appNodes') : appNodes'[i].sessionId = currentSessionId']_vars

\* C26: the side chat panel's message list holds only nodes of the thread that is
\* open: nothing while the panel is closed, and otherwise only side chat nodes of
\* the panel's node and selection.
C26_PanelShowsOpenThread ==
    /\ sidePanel.sideChatPanelNodeId = NoId => sidePanel.sideChatMessages = <<>>
    /\ sidePanel.sideChatPanelNodeId # NoId =>
           Range(sidePanel.sideChatMessages)
               \subseteq ThreadNodes(db, sidePanel.sideChatPanelNodeId,
                                     sidePanel.sideChatSelectedText)

\* The positions of ms that hold a user-role message with the given text.
UserMessagesWith(ms, text) ==
    {i \in 1..Len(ms) : ms[i].role = "user" /\ ms[i].content = text}

\* C27: in the chat flow the new user text appears exactly once in the messages
\* sent to the completion service, as the final user-role message, and not also
\* as a history entry of the path ending at the user node just created.
C27_UserTextOnce ==
    \A r \in Requests :
        chat[r].messages # <<>> =>
            UserMessagesWith(chat[r].messages, chat[r].content) = {Len(chat[r].messages)}

(***************************************************************************)
(* PART 13.  ChatMessage.renderTextWithHighlights (ChatMessage.tsx)        *)
(*                                                                         *)
(* A text is a sequence of characters; positions are counted from 0 as in  *)
(* the code, a match covering the characters start .. end - 1.             *)
(***************************************************************************)

\* Longest short text and most highlight ranges of a call.
MaxTextLen == 3

MaxRanges == 2

\* The length from which a text node is matched inside a longer selection.
CrossElementMinLength == 10

\* text.slice(from, to)
Slice(text, from, to) == SubSeq(text, from + 1, to)

\* text.indexOf(pat, from): the first position at or after from where pat
\* occurs, -1 when there is none.
HlIndexOf(text, pat, from) ==
    LET at == {i \in from..(Len(text) - Len(pat)) : Slice(text, i, i + Len(pat)) = pat}
    IN  IF at = {} THEN -1 ELSE CHOOSE i \in at : \A j \in at : i <= j

\* a.includes(b)
Includes(a, b) == HlIndexOf(a, b, 0) # -1

\* t.replace(/\s+/g, ' '): runs of whitespace become one space.
RECURSIVE CollapseSpaces(_)
CollapseSpaces(t) ==
    IF Len(t) <= 1 THEN t
    ELSE IF t[1] = " " /\ t[2] = " " THEN CollapseSpaces(Tail(t))
    ELSE <<t[1]>> \o CollapseSpaces(Tail(t))

\* t.trim() of a text whose whitespace runs have been collapsed.
Trim(t) ==
    LET a == IF t # <<>> /\ t[1] = " " THEN Tail(t) ELSE t
    IN  IF a # <<>> /\ a[Len(a)] = " " THEN SubSeq(a, 1, Len(a) - 1) ELSE a

\* normalizeText(t)
normalizeText(t) == Trim(CollapseSpaces(t))

\* Case 1, the while loop: the occurrences of the range's text from searchIndex
\* on, each search resuming at the end of the last occurrence.
RECURSIVE HlOccurrences(_, _, _, _)
HlOccurrences(text, rangeText, k, searchIndex) ==
    IF searchIndex >= Len(text) THEN <<>>
    ELSE LET index == HlIndexOf(text, rangeText, searchIndex)
         IN  IF index = -1 THEN <<>>
             ELSE <<[start |-> index, end |-> index + Len(rangeText), range |-> k]>>
                      \o HlOccurrences(text, rangeText, k, index + Len(rangeText))

\* The for loop over highlightRanges from range k on, with the matches so far.
RECURSIVE HlMatches(_, _, _, _)
HlMatches(text, ranges, k, matches) ==
    IF k > Len(ranges) THEN matches
    ELSE LET m1 == matches \o HlOccurrences(text, ranges[k], k, 0)
             m2 == IF /\ m1 = <<>>
                      /\ Len(normalizeText(text)) >= CrossElementMinLength
                      /\ Includes(normalizeText(ranges[k]), normalizeText(text))
                   THEN <<[start |-> 0, end |-> Len(text), range |-> k]>>
                   ELSE m1
         IN  HlMatches(text, ranges, k + 1, m2)

\* The comparator of matches.sort: a goes before b.
HlBefore(a, b) == a.start < b.start \/ (a.start = b.start /\ a.end > b.end)

\* x put into the sorted s, after the elements it does not go before.
RECURSIVE HlInsert(_, _)
HlInsert(s, x) ==
    IF s = <<>> THEN <<x>>
    ELSE IF HlBefore(x, Head(s)) THEN <<x>> \o s
    ELSE <<Head(s)>> \o HlInsert(Tail(s), x)

\* matches.sort(...), a stable sort.
RECURSIVE HlSort(_)
HlSort(ms) ==
    IF ms = <<>> THEN <<>>
    ELSE HlInsert(HlSort(SubSeq(ms, 1, Len(ms) - 1)), ms[Len(ms)])

\* matches.filter(...): a match is kept when it starts at or after the end of
\* the match before it in the sorted list.
RECURSIVE HlFilter(_, _)
HlFilter(ms, i) ==
    IF i > Len(ms) THEN <<>>
    ELSE (IF i = 1 \/ ms[i].start >= ms[i - 1].end THEN <<ms[i]>> ELSE <<>>)
             \o HlFilter(ms, i + 1)

\* nonOverlapping.forEach(...): the segments of the matches from i on, and the
\* rest of the text after the last.
RECURSIVE HlBuild(_, _, _, _)
HlBuild(text, kept, i, lastEnd) ==
    IF i > Len(kept)
    THEN IF lastEnd < Len(text)
         THEN <<[text |-> Slice(text, lastEnd, Len(text)), highlighted |-> FALSE]>>
         ELSE <<>>
    ELSE (IF kept[i].start > lastEnd
          THEN <<[text |-> Slice(text, lastEnd, kept[i].start), highlighted |-> FALSE]>>
          ELSE <<>>)
             \o <<[text |-> Slice(text, kept[i].start, kept[i].end), highlighted |-> TRUE]>>
             \o HlBuild(text, kept, i + 1, kept[i].end)

\* renderTextWithHighlights(text) with the given highlightRanges (their text
\* fields): the matches kept and the segments emitted.
renderTextWithHighlights(text, ranges) ==
    LET matches == HlMatches(text, ranges, 1, <<>>)
        kept == HlFilter(HlSort(matches), 1)
    IN  IF ranges = <<>> \/ matches = <<>>
        THEN [kept |-> <<>>, segments |-> <<[text |-> text, highlighted |-> FALSE]>>]
        ELSE [kept |-> kept, segments |-> HlBuild(text, kept, 1, 0)]

\* The non-empty texts over a and b of at most n characters.
RECURSIVE ShortTexts(_)
ShortTexts(n) ==
    IF n = 0 THEN {}
    ELSE LET prev == ShortTexts(n - 1)
         IN  {<<"a">>, <<"b">>} \cup prev \cup {Append(t, c) : t \in prev, c \in {"a", "b"}}

\* A paragraph long enough to be matched inside a longer selection, and a
\* selection that spans it.
LongText == <<"a", "b", " ", " ", "a", "b", "a", "b", "a", "b", "a", "b">>

LongSelection == <<"b", " ">> \o LongText \o <<" ", "a">>

\* The texts rendered and the selections that side chats were opened on; a
\* selection is never empty.
HlTexts == ShortTexts(MaxTextLen) \cup {LongText}

HlRangeTexts == ShortTexts(MaxTextLen) \cup {LongSelection}

\* The highlight range lists of at most n ranges.
RECURSIVE HlRangeLists(_)
HlRangeLists(n) ==
    IF n = 0 THEN {<<>>}
    ELSE LET prev == HlRangeLists(n - 1)
         IN  prev \cup {Append(rs, t) : rs \in prev, t \in HlRangeTexts}

\* A text node of a message and the highlight ranges of the message, not yet
\* rendered.
HlInit ==
    /\ hlIn \in [text : HlTexts, ranges : HlRangeLists(MaxRanges)]
    /\ hlOut = [kept |-> <<>>, segments |-> <<>>]

\* ChatMessage renders the text node.
HlRender ==
    /\ hlOut.segments = <<>>
    /\ hlOut' = renderTextWithHighlights(hlIn.text, hlIn.ranges)
    /\ UNCHANGED <<hlIn, backVars, hlOthers>>

HlNext ==
    \/ HlRender

HlSpecInit == HlInit /\ StoreIdle /\ BackIdle /\ MemIdle /\ CtxIdle /\ ChatIdle /\ SelIdle /\ SideIdle /\ StrmIdle /\ SvcIdle /\ PathIdle /\ UiIdle /\ SessIdle

SpecHl == HlSpecInit /\ [][HlNext]_vars

\* The segments' texts, one after the other.
RECURSIVE ConcatSegments(_)
ConcatSegments(segs) ==
    IF segs = <<>> THEN <<>> ELSE Head(segs).text \o ConcatSegments(Tail(segs))

\* C29: for every text and every set of highlight ranges, the highlighted
\* segments that renderTextWithHighlights keeps do not overlap one another, and
\* the emitted segments put together are the input text, no character duplicated
\* or lost.
C29_HighlightsPartitionText ==
    hlOut.segments # <<>> =>
    /\ \A i, j \in 1..Len(hlOut.kept) :
           i < j => hlOut.kept[i].end <= hlOut.kept[j].start
    /\ ConcatSegments(hlOut.segments) = hlIn.text

\* C30: index_node never passes a missing text to the embedding service and never
\* creates a chunk with missing or empty content, whatever the state of a node it
\* does not skip, a collapsed node without summary included.
C30_IndexedContentPresent ==
    /\ \A k \in ServiceCalls :
           calls[k].pc = "idx_embed" => IndexContent(calls[k].node) \notin {NoText, <<>>}
    /\ \A c \in DOMAIN chunks : chunks[c].content \notin {NoText, <<>>}

====
